---- MODULE Spec2Model ----
(***************************************************************************)
(* A model of the development-time platform services of family-helper:     *)
(*   - EnvironmentConfig  (configuration store: coercion and memo cache),  *)
(*   - StubDatabase       (query / withTx with a transaction depth),       *)
(*   - StubPubSub         (publish / subscribe with deferred delivery),    *)
(*   - StubCache          (key/value store with optional expiry).          *)
(* Strings that the code inspects character by character (environment      *)
(* keys and raw values) are sequences of one-character strings.            *)
(***************************************************************************)
EXTENDS Integers, Sequences, FiniteSets, TLC

VARIABLES
    env,          \* process.env: key -> raw string, or Undefined
    cache,        \* EnvironmentConfig.cache: key -> memoized value, or NotCached
    returned,     \* ghost: key -> value the last get of the key returned since the last clearCache
    last,         \* the last ConfigStore operation and what its caller observed
    transactionDepth, \* StubDatabase.transactionDepth
    calls,        \* the withTx invocations started so far, in call order
    dbLast,       \* the last StubDatabase step and what it logged
    subscribers,  \* StubPubSub.subscribers: the Map topic -> array of handlers
    eventHistory, \* StubPubSub.eventHistory
    events,       \* the publish calls made so far, in call order, each with its delivery task
    tokens,       \* the cancellation functions subscribe has returned, in creation order
    uuids,        \* the number of values generateUUID has produced
    trace,        \* ghost: the handler invocations, in order
    store,        \* StubCache.store: the Map key -> entry
    now,          \* Date.now(), in milliseconds
    written,      \* ghost: key -> the last set or del of the key
    ttlLast,      \* the last StubCache operation and what its caller observed
    bundles,      \* createPlatformServices: call number -> the fields of the services it built
    bundleLast    \* the last operation on a service of a bundle and what its caller observed

cfgVars == <<env, cache, returned, last>>
dbVars == <<transactionDepth, calls, dbLast>>
busVars == <<subscribers, eventHistory, events, tokens, uuids, trace>>
ttlVars == <<store, now, written, ttlLast>>
svcVars == <<bundles, bundleLast>>
vars == <<env, cache, returned, last, transactionDepth, calls, dbLast,
          subscribers, eventHistory, events, tokens, uuids, trace,
          store, now, written, ttlLast,
          bundles, bundleLast>>

----------------------------------------------------------------------------
(* Characters and strings *)

Digits == {"0", "1", "2", "3", "4", "5", "6", "7", "8", "9"}
HexDigits == Digits \cup {"a", "b", "c", "d", "e", "f", "A", "B", "C", "D", "E", "F"}
WhiteSpace == {" ", "\t", "\n"}
UpperCase == <<"A", "B", "C", "D", "E", "F", "G", "H", "I", "J", "K", "L", "M",
               "N", "O", "P", "Q", "R", "S", "T", "U", "V", "W", "X", "Y", "Z">>
LowerCase == <<"a", "b", "c", "d", "e", "f", "g", "h", "i", "j", "k", "l", "m",
               "n", "o", "p", "q", "r", "s", "t", "u", "v", "w", "x", "y", "z">>

\* String.prototype.toLowerCase, one character
LowerChar(c) ==
    IF \E i \in 1..26 : UpperCase[i] = c
    THEN LowerCase[CHOOSE i \in 1..26 : UpperCase[i] = c]
    ELSE c

\* String.prototype.toLowerCase
toLowerCase(s) == [i \in 1..Len(s) |-> LowerChar(s[i])]

\* String.prototype.startsWith
startsWith(s, p) == Len(p) <= Len(s) /\ SubSeq(s, 1, Len(p)) = p

\* String.prototype.endsWith
endsWith(s, p) == Len(p) <= Len(s) /\ SubSeq(s, Len(s) - Len(p) + 1, Len(s)) = p

\* the value of one digit in a radix up to 16
DigitVal(c) ==
    CASE c = "0" -> 0 [] c = "1" -> 1 [] c = "2" -> 2 [] c = "3" -> 3 [] c = "4" -> 4
      [] c = "5" -> 5 [] c = "6" -> 6 [] c = "7" -> 7 [] c = "8" -> 8 [] c = "9" -> 9
      [] c \in {"a", "A"} -> 10 [] c \in {"b", "B"} -> 11 [] c \in {"c", "C"} -> 12
      [] c \in {"d", "D"} -> 13 [] c \in {"e", "E"} -> 14 [] c \in {"f", "F"} -> 15

RECURSIVE StrToNat(_, _)
\* the value of a string of digits in the radix
StrToNat(s, radix) ==
    IF Len(s) = 0 THEN 0
    ELSE StrToNat(SubSeq(s, 1, Len(s) - 1), radix) * radix + DigitVal(s[Len(s)])

AllIn(s, set) == \A i \in 1..Len(s) : s[i] \in set

----------------------------------------------------------------------------
(* JavaScript values.  A number is m * 10^e, normalised, or NaN / Infinity. *)

Undefined == [t |-> "undefined"]
Null == [t |-> "null"]
Str(s) == [t |-> "string", s |-> s]
Bool(b) == [t |-> "boolean", b |-> b]

RECURSIVE NormMant(_), NormExp(_, _)
NormMant(m) == IF m = 0 THEN 0 ELSE IF m % 10 = 0 THEN NormMant(m \div 10) ELSE m
NormExp(m, e) == IF m = 0 THEN 0 ELSE IF m % 10 = 0 THEN NormExp(m \div 10, e + 1) ELSE e

Num(m, e) == [t |-> "number", k |-> "finite", m |-> NormMant(m), e |-> NormExp(m, e)]
NaN == [t |-> "number", k |-> "NaN", m |-> 0, e |-> 0]
Infinity == [t |-> "number", k |-> "Infinity", m |-> 0, e |-> 0]
NegInfinity == [t |-> "number", k |-> "-Infinity", m |-> 0, e |-> 0]

\* an array or object; ref is its identity (===), j its content
Obj(j, ref) == [t |-> "object", j |-> j, ref |-> ref]

\* typeof v
typeof(v) == IF v.t = "null" THEN "object" ELSE v.t

\* isNaN(v) for a number v
isNaN(v) == v.t = "number" /\ v.k = "NaN"

----------------------------------------------------------------------------
(* Number(string): ECMAScript StringToNumber *)

RECURSIVE TrimLeft(_), TrimRight(_)
TrimLeft(s) ==
    IF Len(s) > 0 /\ s[1] \in WhiteSpace THEN TrimLeft(Tail(s)) ELSE s
TrimRight(s) ==
    IF Len(s) > 0 /\ s[Len(s)] \in WhiteSpace THEN TrimRight(SubSeq(s, 1, Len(s) - 1)) ELSE s

\* String.prototype.trim, as StringToNumber strips white space
Trim(s) == TrimRight(TrimLeft(s))

\* the positions of character c in s
Positions(s, c) == {i \in 1..Len(s) : s[i] = c}

\* StrUnsignedDecimalLiteral without exponent: digits [. [digits]] | . digits
IsDecimalMantissa(s) ==
    LET dots == Positions(s, ".")
    IN  /\ AllIn(s, Digits \cup {"."})
        /\ Cardinality(dots) <= 1
        /\ Len(s) - Cardinality(dots) >= 1

\* [+-]? digits+
IsExponentPart(s) ==
    LET body == IF Len(s) > 0 /\ s[1] \in {"+", "-"} THEN Tail(s) ELSE s
    IN  Len(body) >= 1 /\ AllIn(body, Digits)

ExponentValue(s) ==
    IF s[1] = "-" THEN 0 - StrToNat(Tail(s), 10)
    ELSE IF s[1] = "+" THEN StrToNat(Tail(s), 10)
    ELSE StrToNat(s, 10)

\* the number a mantissa string (digits with at most one '.') and an exponent denote
DecimalValue(mant, exp, negative) ==
    LET dots == Positions(mant, ".")
        dot == IF dots = {} THEN Len(mant) + 1 ELSE CHOOSE i \in dots : TRUE
        intPart == SubSeq(mant, 1, dot - 1)
        fracPart == SubSeq(mant, dot + 1, Len(mant))
        m == StrToNat(intPart \o fracPart, 10)
    IN  Num(IF negative THEN 0 - m ELSE m, exp - Len(fracPart))

\* StrDecimalLiteral: [+-]? (Infinity | mantissa ([eE] exponent)?); NaN when s is none
StrDecimalLiteral(s) ==
    LET signed == Len(s) > 0 /\ s[1] \in {"+", "-"}
        negative == signed /\ s[1] = "-"
        u == IF signed THEN Tail(s) ELSE s
        es == Positions(u, "e") \cup Positions(u, "E")
    IN  IF u = <<"I", "n", "f", "i", "n", "i", "t", "y">>
        THEN (IF negative THEN NegInfinity ELSE Infinity)
        ELSE IF es = {}
        THEN (IF IsDecimalMantissa(u) THEN DecimalValue(u, 0, negative) ELSE NaN)
        ELSE LET ePos == CHOOSE i \in es : \A j \in es : i <= j
                 mant == SubSeq(u, 1, ePos - 1)
                 expo == SubSeq(u, ePos + 1, Len(u))
             IN  IF IsDecimalMantissa(mant) /\ IsExponentPart(expo)
                 THEN DecimalValue(mant, ExponentValue(expo), negative)
                 ELSE NaN

\* 0x / 0o / 0b literals (unsigned); the radix, or 0 when s is none of them
RadixPrefix(s) ==
    IF Len(s) >= 3 /\ s[1] = "0"
    THEN (IF s[2] \in {"x", "X"} THEN 16
          ELSE IF s[2] \in {"o", "O"} THEN 8
          ELSE IF s[2] \in {"b", "B"} THEN 2
          ELSE 0)
    ELSE 0

RadixDigits(radix) ==
    IF radix = 16 THEN HexDigits
    ELSE IF radix = 8 THEN {"0", "1", "2", "3", "4", "5", "6", "7"}
    ELSE {"0", "1"}

\* Number(rawValue)
Number(raw) ==
    LET s == Trim(raw)
        radix == RadixPrefix(s)
    IN  IF Len(s) = 0 THEN Num(0, 0)
        ELSE IF radix # 0
        THEN (IF AllIn(SubSeq(s, 3, Len(s)), RadixDigits(radix))
              THEN Num(StrToNat(SubSeq(s, 3, Len(s)), radix), 0)
              ELSE NaN)
        ELSE StrDecimalLiteral(s)

\* /^\d+$/.test(rawValue)
IsIntegerPattern(raw) == Len(raw) >= 1 /\ AllIn(raw, Digits)

\* /^\d+\.\d+$/.test(rawValue)
IsDecimalPattern(raw) ==
    \E i \in 2..(Len(raw) - 1) :
        /\ raw[i] = "."
        /\ AllIn(SubSeq(raw, 1, i - 1), Digits)
        /\ AllIn(SubSeq(raw, i + 1, Len(raw)), Digits)

\* parseInt(rawValue, 10) on a string of digits
parseInt(raw) == Num(StrToNat(raw, 10), 0)

\* parseFloat(rawValue) on digits '.' digits
parseFloat(raw) == DecimalValue(raw, 0, FALSE)

----------------------------------------------------------------------------
(* JSON.parse, for JSON texts without escape sequences in strings *)

\* an array / an object as JSON.parse builds them (content only)
JArray(items) == [k |-> "array", items |-> items]
JObject(members) == [k |-> "object", members |-> members]

\* a parse result: the value and the position after it, or a SyntaxError
ParseOk(v, i) == [ok |-> TRUE, v |-> v, i |-> i]
ParseFail == [ok |-> FALSE, v |-> Null, i |-> 0]

CharAt(s, i) == IF i >= 1 /\ i <= Len(s) THEN s[i] ELSE "EOF"

RECURSIVE SkipWs(_, _), ScanDigits(_, _)
\* the first position at or after i that holds no white space
SkipWs(s, i) == IF CharAt(s, i) \in WhiteSpace THEN SkipWs(s, i + 1) ELSE i
\* the first position at or after i that holds no digit
ScanDigits(s, i) == IF CharAt(s, i) \in Digits THEN ScanDigits(s, i + 1) ELSE i

\* number: -? (0 | [1-9] digits*) (. digits+)? ([eE] [+-]? digits+)?
ParseNumber(s, i) ==
    LET negative == CharAt(s, i) = "-"
        j == IF negative THEN i + 1 ELSE i
        intEnd == IF CharAt(s, j) = "0" THEN j + 1 ELSE ScanDigits(s, j)
        hasFrac == CharAt(s, intEnd) = "."
        fracEnd == IF hasFrac THEN ScanDigits(s, intEnd + 1) ELSE intEnd
        hasExp == CharAt(s, fracEnd) \in {"e", "E"}
        expStart == IF CharAt(s, fracEnd + 1) \in {"+", "-"} THEN fracEnd + 2 ELSE fracEnd + 1
        expEnd == IF hasExp THEN ScanDigits(s, expStart) ELSE fracEnd
        expo == IF hasExp THEN ExponentValue(SubSeq(s, fracEnd + 1, expEnd - 1)) ELSE 0
    IN  IF \/ intEnd = j
           \/ hasFrac /\ fracEnd = intEnd + 1
           \/ hasExp /\ expEnd = expStart
        THEN ParseFail
        ELSE ParseOk(DecimalValue(SubSeq(s, j, fracEnd - 1), expo, negative), expEnd)

\* string: '"' characters '"' (a control character or a backslash ends the parse)
ParseString(s, i) ==
    LET quotes == {j \in (i + 1)..Len(s) : s[j] = "\""}
        close == CHOOSE j \in quotes : \A k \in quotes : j <= k
    IN  IF CharAt(s, i) # "\"" \/ quotes = {} THEN ParseFail
        ELSE IF \E k \in (i + 1)..(close - 1) : s[k] \in {"\t", "\n", "\\"} THEN ParseFail
        ELSE ParseOk(Str(SubSeq(s, i + 1, close - 1)), close + 1)

ParseLiteral(s, i, word, v) ==
    IF i + Len(word) - 1 <= Len(s) /\ SubSeq(s, i, i + Len(word) - 1) = word
    THEN ParseOk(v, i + Len(word))
    ELSE ParseFail

RECURSIVE ParseValue(_, _), ParseElements(_, _, _), ParseMembers(_, _, _)
\* value at position i (no leading white space)
ParseValue(s, i) ==
    LET c == CharAt(s, i)
    IN  IF c = "{" THEN
            (IF CharAt(s, SkipWs(s, i + 1)) = "}"
             THEN ParseOk(Obj(JObject(<<>>), 0), SkipWs(s, i + 1) + 1)
             ELSE ParseMembers(s, i + 1, <<>>))
        ELSE IF c = "[" THEN
            (IF CharAt(s, SkipWs(s, i + 1)) = "]"
             THEN ParseOk(Obj(JArray(<<>>), 0), SkipWs(s, i + 1) + 1)
             ELSE ParseElements(s, i + 1, <<>>))
        ELSE IF c = "\"" THEN ParseString(s, i)
        ELSE IF c = "t" THEN ParseLiteral(s, i, <<"t", "r", "u", "e">>, Bool(TRUE))
        ELSE IF c = "f" THEN ParseLiteral(s, i, <<"f", "a", "l", "s", "e">>, Bool(FALSE))
        ELSE IF c = "n" THEN ParseLiteral(s, i, <<"n", "u", "l", "l">>, Null)
        ELSE IF c = "-" \/ c \in Digits THEN ParseNumber(s, i)
        ELSE ParseFail

\* elements: element (',' element)* ']', the elements before position i in acc
ParseElements(s, i, acc) ==
    LET r == ParseValue(s, SkipWs(s, i))
        k == SkipWs(s, r.i)
    IN  IF ~r.ok THEN ParseFail
        ELSE IF CharAt(s, k) = "," THEN ParseElements(s, k + 1, Append(acc, r.v))
        ELSE IF CharAt(s, k) = "]" THEN ParseOk(Obj(JArray(Append(acc, r.v)), 0), k + 1)
        ELSE ParseFail

\* members: string ':' element (',' member)* '}', a later duplicate key wins
ParseMembers(s, i, acc) ==
    LET key == ParseString(s, SkipWs(s, i))
        colon == SkipWs(s, key.i)
        r == ParseValue(s, SkipWs(s, colon + 1))
        k == SkipWs(s, r.i)
        members == (key.v.s :> r.v) @@ acc
    IN  IF ~key.ok \/ CharAt(s, colon) # ":" THEN ParseFail
        ELSE IF ~r.ok THEN ParseFail
        ELSE IF CharAt(s, k) = "," THEN ParseMembers(s, k + 1, members)
        ELSE IF CharAt(s, k) = "}" THEN ParseOk(Obj(JObject(members), 0), k + 1)
        ELSE ParseFail

\* JSON.parse(text): ok is FALSE where JSON.parse throws a SyntaxError.  A
\* top-level array or object is a new object, of identity ref.
JSONparse(text, ref) ==
    LET Whole(r) ==
            IF r.ok /\ SkipWs(text, r.i) = Len(text) + 1
            THEN [ok |-> TRUE, v |-> IF r.v.t = "object" THEN Obj(r.v.j, ref) ELSE r.v]
            ELSE [ok |-> FALSE, v |-> Null]
    IN  Whole(ParseValue(text, SkipWs(text, 1)))

----------------------------------------------------------------------------
(* EnvironmentConfig *)

\* the environment keys of the model
KeyA == <<"A">>
KeyAB == <<"A", "B">>
KeyB == <<"B">>
Keys == {KeyA, KeyAB, KeyB}

\* Map.get of a key the Map does not hold
NotCached == [t |-> "notcached"]

NoError == [name |-> "none", message |-> <<>>]
ConfigError(message) == [name |-> "ConfigError", message |-> message]

\* what a call gives its caller: a value, or an exception
Returns(v) == [threw |-> FALSE, v |-> v, error |-> NoError]
Throws(error) == [threw |-> TRUE, v |-> Undefined, error |-> error]

\* convertValue, the branch taken with a default value: its type is the hint
convertHinted(rawValue, defaultValue, ref) ==
    LET defaultType == typeof(defaultValue)
        numValue == Number(rawValue)
        lowerValue == toLowerCase(rawValue)
        parsed == JSONparse(rawValue, ref)
    IN  CASE defaultType = "number" ->
               IF isNaN(numValue)
               THEN Throws(ConfigError(<<"Configuration value '">> \o rawValue
                                        \o <<"' cannot be converted to number">>))
               ELSE Returns(numValue)
          [] defaultType = "boolean" ->
               IF lowerValue \in {<<"t", "r", "u", "e">>, <<"1">>, <<"y", "e", "s">>}
               THEN Returns(Bool(TRUE))
               ELSE IF lowerValue \in {<<"f", "a", "l", "s", "e">>, <<"0">>, <<"n", "o">>}
               THEN Returns(Bool(FALSE))
               ELSE Throws(ConfigError(<<"Configuration value '">> \o rawValue
                                        \o <<"' cannot be converted to boolean">>))
          [] defaultType = "object" ->
               IF parsed.ok
               THEN Returns(parsed.v)
               ELSE Throws(ConfigError(<<"Configuration value '">> \o rawValue
                                        \o <<"' is not valid JSON">>))

\* the auto-detection with the boolean words tested before the number patterns
convertAutoBooleanFirst(rawValue, ref) ==
    LET lowerValue == toLowerCase(rawValue)
        parsed == JSONparse(rawValue, ref)
    IN  IF lowerValue \in {<<"t", "r", "u", "e">>, <<"f", "a", "l", "s", "e">>,
                           <<"1">>, <<"0">>, <<"y", "e", "s">>, <<"n", "o">>}
        THEN Returns(Bool(lowerValue \in {<<"t", "r", "u", "e">>, <<"1">>, <<"y", "e", "s">>}))
        ELSE IF IsIntegerPattern(rawValue) THEN Returns(parseInt(rawValue))
        ELSE IF IsDecimalPattern(rawValue) THEN Returns(parseFloat(rawValue))
        ELSE IF /\ \/ startsWith(rawValue, <<"{">>) /\ endsWith(rawValue, <<"}">>)
                   \/ startsWith(rawValue, <<"[">>) /\ endsWith(rawValue, <<"]">>)
                /\ parsed.ok
        THEN Returns(parsed.v)
        ELSE Returns(Str(rawValue))

\* convertValue, auto-detection of common patterns
convertAuto(rawValue, ref) ==
    LET lowerValue == toLowerCase(rawValue)
        parsed == JSONparse(rawValue, ref)
    IN  IF IsIntegerPattern(rawValue) THEN Returns(parseInt(rawValue))
        ELSE IF IsDecimalPattern(rawValue) THEN Returns(parseFloat(rawValue))
        ELSE IF lowerValue \in {<<"t", "r", "u", "e">>, <<"f", "a", "l", "s", "e">>,
                                <<"1">>, <<"0">>, <<"y", "e", "s">>, <<"n", "o">>}
        THEN Returns(Bool(lowerValue \in {<<"t", "r", "u", "e">>, <<"1">>, <<"y", "e", "s">>}))
        ELSE IF /\ \/ startsWith(rawValue, <<"{">>) /\ endsWith(rawValue, <<"}">>)
                   \/ startsWith(rawValue, <<"[">>) /\ endsWith(rawValue, <<"]">>)
                /\ parsed.ok
        THEN Returns(parsed.v)
        ELSE Returns(Str(rawValue))

\* convertValue(rawValue, defaultValue); ref is the identity of an object it creates
convertValue(rawValue, defaultValue, ref) ==
    IF defaultValue # Undefined /\ typeof(defaultValue) \in {"number", "boolean", "object"}
    THEN convertHinted(rawValue, defaultValue, ref)
    ELSE convertAuto(rawValue, ref)

\* a get that stores an empty entry for the key when it throws
resolveMemoizesFailure(c, e, ref, key, required, default) ==
    LET rawValue == e[key]
        failure == [c EXCEPT ![key] = Str(<<>>)]
        Store(converted) ==
            IF converted.threw
            THEN [cache |-> failure, out |-> converted]
            ELSE [cache |-> [c EXCEPT ![key] = converted.v], out |-> converted]
    IN  IF rawValue = Undefined \/ rawValue = Str(<<>>)
        THEN (IF required
              THEN [cache |-> failure,
                    out |-> Throws(ConfigError(<<"Required configuration key '">> \o key
                                                \o <<"' is missing or empty">>))]
              ELSE IF default # Undefined
              THEN [cache |-> [c EXCEPT ![key] = default], out |-> Returns(default)]
              ELSE [cache |-> [c EXCEPT ![key] = Str(<<>>)], out |-> Returns(Str(<<>>))])
        ELSE Store(convertValue(rawValue.s, default, ref))

\* get(key, opts) past the cache check: the key is read from environment e, and
\* what the caller gets and the Map c afterwards
resolve(c, e, ref, key, required, default) ==
    LET rawValue == e[key]
        Store(converted) ==
            IF converted.threw
            THEN [cache |-> c, out |-> converted]
            ELSE [cache |-> [c EXCEPT ![key] = converted.v], out |-> converted]
    IN  IF rawValue = Undefined \/ rawValue = Str(<<>>)
        THEN (IF required
              THEN [cache |-> c,
                    out |-> Throws(ConfigError(<<"Required configuration key '">> \o key
                                                \o <<"' is missing or empty">>))]
              ELSE IF default # Undefined
              THEN [cache |-> [c EXCEPT ![key] = default], out |-> Returns(default)]
              ELSE [cache |-> [c EXCEPT ![key] = Str(<<>>)], out |-> Returns(Str(<<>>))])
        ELSE Store(convertValue(rawValue.s, default, ref))

\* get without its cache check: every call resolves the key again
getUnmemoized(c, e, ref, key, required, default) ==
    resolve(c, e, ref, key, required, default)

\* get(key, {required, default}) on a store whose Map is c: the cache check first
get(c, e, ref, key, required, default) ==
    IF c[key] # NotCached
    THEN [cache |-> c, out |-> Returns(c[key])]
    ELSE resolve(c, e, ref, key, required, default)

\* clearCache that leaves the Map as it is
clearCacheKeepsEntries(c) == c

\* clearCache(): the Map afterwards
clearCache(c) == [k \in DOMAIN c |-> NotCached]

\* getKeysWithPrefix that tests the value for truthiness: an empty value is skipped
getKeysWithPrefixTruthy(e, prefix) ==
    [k \in {key \in DOMAIN e : startsWith(key, prefix) /\ e[key] # Undefined
                                 /\ e[key] # Str(<<>>)} |-> e[k].s]

\* getKeysWithPrefix(prefix) against environment e: a Record<string, string>
getKeysWithPrefix(e, prefix) ==
    [k \in {key \in DOMAIN e : startsWith(key, prefix) /\ e[key] # Undefined} |-> e[k].s]

----------------------------------------------------------------------------
(* The ConfigStore as a state machine: its callers, and the environment *)

\* raw values the environment may hold
Raw1 == <<"1">>
RawList == <<"[", "]">>
RawWord == <<"x">>
RawBlank == <<" ">>
RawSamples == {<<>>, Raw1, RawList, RawWord, RawBlank}

\* raw values for the auto-detection: every string of up to MaxAutoLen characters
\* of AutoAlphabet, and the longer texts of AutoTexts
MaxAutoLen == 2
AutoAlphabet == {"1", "0", ".", "t", "n", "o", "N", "{", "}", "[", "]"}
AutoTexts ==
    {<<"8", "0", "8", "0">>, <<"0", "0", "7">>, <<"1", ".", "5">>, <<"3", ".", "1", "4">>,
     <<"1", ".", "2", ".", "3">>, <<"1", "2", "a">>, <<" ", "1">>, <<"-", "1">>,
     <<"1", "e", "3">>,
     <<"t", "r", "u", "e">>, <<"T", "R", "U", "E">>, <<"F", "a", "l", "s", "e">>,
     <<"y", "e", "s">>, <<"Y", "e", "s">>, <<"n", "o", "p", "e">>, <<"t", "r", "u", "e", " ">>,
     <<"{", "\"", "a", "\"", ":", "1", "}">>, <<"[", "1", ",", "2", "]">>,
     <<"{", "a", "}">>, <<"[", "x", "]">>, <<"{", "}", " ">>, <<"[", "t", "r", "u", "e", "]">>}
AutoSamples == AutoTexts \cup UNION {[1..n -> AutoAlphabet] : n \in 1..MaxAutoLen}

\* default values callers pass; an object default is the caller's own object
DefaultNumber == Num(7, 0)
DefaultObject == Obj(JObject(<<>>), 0 - 1)
DefaultSamples == {Undefined, DefaultNumber, Bool(FALSE), DefaultObject}

\* prefixes callers pass to getKeysWithPrefix
PrefixSamples == {<<>>, KeyA, KeyAB, KeyB, <<"C">>}

NoCall == [op |-> "none"]
NoFailure == [threw |-> FALSE]

RefsOf(v) == IF v.t = "object" THEN {v.ref} ELSE {}

\* the identities of the objects the store or its callers still hold
LiveRefs ==
    UNION {RefsOf(cache[k]) \cup RefsOf(returned[k]) : k \in Keys}
      \cup (IF last.op = "get" THEN RefsOf(last.out.v) \cup RefsOf(last.cleared) ELSE {})
      \cup (IF last.op \in {"get", "clearCache"} /\ last.before.op = "get"
            THEN RefsOf(last.before.out.v) ELSE {})
      \cup (IF last.op = "clearCache" THEN UNION {RefsOf(last.memo[k]) : k \in Keys} ELSE {})

\* the identity of a newly created object: one that nothing live has
FreshRef == CHOOSE n \in 0..Cardinality(LiveRefs) : n \notin LiveRefs

\* a caller calls get(key, {required, default})
Get(key, required, default) ==
    \E r \in {get(cache, env, FreshRef, key, required, default)} :
        LET plain == ~required /\ default = Undefined
        IN
        /\ cache' = r.cache
        /\ returned' = IF r.out.threw THEN returned ELSE [returned EXCEPT ![key] = r.out.v]
        /\ last' = [op |-> "get", key |-> key, required |-> required, default |-> default,
                    out |-> r.out,
                    \* what a get of this key last returned since the last clearCache
                    prev |-> returned[key],
                    \* this is the first operation after a clearCache
                    afterClear |-> last.op = "clearCache",
                    \* the value memoized for the key when that clearCache was called
                    cleared |-> IF last.op = "clearCache" THEN last.memo[key] ELSE NotCached,
                    \* the plain get(key) called right before that clearCache
                    before |-> IF last.op = "clearCache" /\ plain /\ last.before.op = "get"
                                  /\ last.before.key = key
                               THEN last.before ELSE NoCall,
                    \* how the get of this key failed after which the process has just
                    \* set the variable
                    failed |-> IF last.op = "corrected" /\ last.key = key
                               THEN last.failed ELSE NoFailure]
        /\ UNCHANGED <<env, dbVars, busVars, ttlVars, svcVars>>

\* a caller calls clearCache()
ClearCache ==
    /\ cache' = clearCache(cache)
    /\ returned' = [k \in Keys |-> NotCached]
    /\ last' = [op |-> "clearCache", memo |-> returned,
                before |-> IF last.op = "get" /\ ~last.required /\ last.default = Undefined
                           THEN [op |-> "get", key |-> last.key, out |-> last.out]
                           ELSE NoCall]
    /\ UNCHANGED <<env, dbVars, busVars, ttlVars, svcVars>>

\* a caller calls getKeysWithPrefix(prefix)
GetKeysWithPrefix(prefix) ==
    /\ last' = [op |-> "getKeysWithPrefix", prefix |-> prefix,
                result |-> getKeysWithPrefix(env, prefix)]
    /\ UNCHANGED <<env, cache, returned, dbVars, busVars, ttlVars, svcVars>>

\* the process sets process.env[key] = raw
SetEnv(key, raw) ==
    /\ env[key] # Str(raw)
    /\ env' = [env EXCEPT ![key] = Str(raw)]
    /\ last' = [op |-> "env"]
    /\ UNCHANGED <<cache, returned, dbVars, busVars, ttlVars, svcVars>>

\* the process sets process.env[key] right after a get of that key has thrown
CorrectEnv(key, raw) ==
    /\ last.op = "get" /\ last.key = key /\ last.out.threw
    /\ env[key] # Str(raw)
    /\ env' = [env EXCEPT ![key] = Str(raw)]
    /\ last' = [op |-> "corrected", key |-> key, failed |-> last.out]
    /\ UNCHANGED <<cache, returned, dbVars, busVars, ttlVars, svcVars>>

\* the process deletes process.env[key]
DeleteEnv(key) ==
    /\ env[key] # Undefined
    /\ env' = [env EXCEPT ![key] = Undefined]
    /\ last' = [op |-> "env"]
    /\ UNCHANGED <<cache, returned, dbVars, busVars, ttlVars, svcVars>>

----------------------------------------------------------------------------
(* StubDatabase.  withTx is an async function: it runs up to `await fn(this)`
   when called, and its continuation (commit or rollback record, the finally
   block, settling its promise) runs after the body's promise has settled.
   Bodies are caller code: they query, call withTx on the handle they were
   given, and end by returning a value or throwing. *)

\* the bound on the number of withTx invocations in one behaviour
MaxCalls == 3

\* what bodies return and throw: an Error, or a value that is no Error
BodyResults == {Str(<<"a">>), Str(<<"b">>)}
BodyErrors == {[name |-> "Error", message |-> <<"boom">>], Str(<<"oops">>)}

\* the exception a failing Logger call raises
LoggerError == [name |-> "Error", message |-> <<"logger">>]

NoOutcome == [threw |-> FALSE, v |-> Undefined, error |-> NoError, pending |-> TRUE]

\* error instanceof Error ? error.message : String(error)
ErrorText(error) == IF "name" \in DOMAIN error THEN error.message ELSE error.s

\* the invocations whose promise has not settled
InProgress == {c \in 1..Len(calls) : calls[c].pc # "settled"}

\* query that reports the depth outside the innermost scope
queryOuterDepth(depth, logThrows) ==
    IF logThrows
    THEN [logged |-> <<>>, out |-> Throws(LoggerError)]
    ELSE [logged |-> <<[msg |-> "Stub database query executed",
                        prefix |-> IF depth > 1 THEN "[TX] " ELSE "",
                        transactionDepth |-> IF depth > 0 THEN depth - 1 ELSE 0]>>,
          out |-> Returns(Obj(JArray(<<>>), 0))]

\* query(sql, params) issued by the body of invocation `from` (0: outside any withTx):
\* the record it logs and what it returns (sql and params are only passed on to the Logger)
query(depth, logThrows) ==
    IF logThrows
    THEN [logged |-> <<>>, out |-> Throws(LoggerError)]
    ELSE [logged |-> <<[msg |-> "Stub database query executed",
                        prefix |-> IF depth > 0 THEN "[TX] " ELSE "",
                        transactionDepth |-> depth]>>,
          out |-> Returns(Obj(JArray(<<>>), 0))]

\* withTx that raises the depth before it writes its start record
withTxEnterCountsFirst(depth, parent, logThrows) ==
    IF logThrows
    THEN [depth |-> depth + 1,
          call |-> [parent |-> parent, pc |-> "settled", log |-> <<>>,
                    bodyOut |-> NoOutcome, out |-> Throws(LoggerError)]]
    ELSE [depth |-> depth + 1,
          call |-> [parent |-> parent, pc |-> "body",
                    log |-> <<[msg |-> "Starting database transaction",
                               transactionDepth |-> depth]>>,
                    bodyOut |-> NoOutcome, out |-> NoOutcome]]

\* withTx up to `await fn(this)`: the start record, the increment, the body started
withTxEnter(depth, parent, logThrows) ==
    IF logThrows
    THEN [depth |-> depth,
          call |-> [parent |-> parent, pc |-> "settled", log |-> <<>>,
                    bodyOut |-> NoOutcome, out |-> Throws(LoggerError)]]
    ELSE [depth |-> depth + 1,
          call |-> [parent |-> parent, pc |-> "body",
                    log |-> <<[msg |-> "Starting database transaction",
                               transactionDepth |-> depth]>>,
                    bodyOut |-> NoOutcome, out |-> NoOutcome]]

\* a catch block that rethrows a new Error made from the message
withTxCatchWraps(depth, call, error, rollbackLogThrows) ==
    IF rollbackLogThrows
    THEN [call EXCEPT !.out = Throws(LoggerError)]
    ELSE [call EXCEPT !.log = Append(@, [msg |-> "Database transaction rolled back",
                                         error |-> ErrorText(error),
                                         transactionDepth |-> depth - 1]),
                      !.out = Throws([name |-> "Error", message |-> ErrorText(error)])]

\* the catch block: the rollback record, then the error rethrown
withTxCatch(depth, call, error, rollbackLogThrows) ==
    IF rollbackLogThrows
    THEN [call EXCEPT !.out = Throws(LoggerError)]
    ELSE [call EXCEPT !.log = Append(@, [msg |-> "Database transaction rolled back",
                                         error |-> ErrorText(error),
                                         transactionDepth |-> depth - 1]),
                      !.out = Throws(error)]

\* withTx without a finally block: the decrement follows the commit record only
withTxExitNoFinally(depth, call, commitLogThrows, rollbackLogThrows) ==
    IF call.bodyOut.threw
    THEN [depth |-> depth,
          call |-> [withTxCatch(depth, call, call.bodyOut.error, rollbackLogThrows)
                      EXCEPT !.pc = "settled"]]
    ELSE [depth |-> depth - 1,
          call |-> [call EXCEPT !.log = Append(@, [msg |-> "Database transaction committed",
                                                   transactionDepth |-> depth - 1]),
                                !.out = call.bodyOut, !.pc = "settled"]]

\* withTx after `await fn(this)` has settled: commit record and result, or the catch
\* block; then the finally block
withTxExit(depth, call, commitLogThrows, rollbackLogThrows) ==
    LET done ==
          IF call.bodyOut.threw
          THEN withTxCatch(depth, call, call.bodyOut.error, rollbackLogThrows)
          ELSE IF commitLogThrows
          THEN withTxCatch(depth, call, LoggerError, rollbackLogThrows)
          ELSE [call EXCEPT !.log = Append(@, [msg |-> "Database transaction committed",
                                               transactionDepth |-> depth - 1]),
                            !.out = call.bodyOut]
    IN  [depth |-> depth - 1, call |-> [done EXCEPT !.pc = "settled"]]

\* a caller (parent = 0) or the body of invocation `parent` calls withTx(fn)
WithTxEnter(parent, logThrows) ==
    LET r == withTxEnter(transactionDepth, parent, logThrows)
    IN  /\ Len(calls) < MaxCalls
        /\ parent = 0 \/ (parent \in 1..Len(calls) /\ calls[parent].pc = "body")
        /\ transactionDepth' = r.depth
        /\ calls' = Append(calls, r.call)
        /\ dbLast' = [op |-> "withTx", call |-> Len(calls) + 1, depthBefore |-> transactionDepth]
        /\ UNCHANGED <<cfgVars, busVars, ttlVars, svcVars>>

\* the body of invocation c returns a value
BodyReturns(c, v) ==
    /\ c \in 1..Len(calls) /\ calls[c].pc = "body"
    /\ calls' = [calls EXCEPT ![c].pc = "returned", ![c].bodyOut = Returns(v)]
    /\ dbLast' = [op |-> "body", call |-> c]
    /\ UNCHANGED <<transactionDepth, cfgVars, busVars, ttlVars, svcVars>>

\* the body of invocation c throws
BodyThrows(c, error) ==
    /\ c \in 1..Len(calls) /\ calls[c].pc = "body"
    /\ calls' = [calls EXCEPT ![c].pc = "threw", ![c].bodyOut = Throws(error)]
    /\ dbLast' = [op |-> "body", call |-> c]
    /\ UNCHANGED <<transactionDepth, cfgVars, busVars, ttlVars, svcVars>>

\* the continuation of invocation c runs
WithTxExit(c, commitLogThrows, rollbackLogThrows) ==
    LET r == withTxExit(transactionDepth, calls[c], commitLogThrows, rollbackLogThrows)
    IN  /\ c \in 1..Len(calls) /\ calls[c].pc \in {"returned", "threw"}
        /\ transactionDepth' = r.depth
        /\ calls' = [calls EXCEPT ![c] = r.call]
        /\ dbLast' = [op |-> "exit", call |-> c, depthBefore |-> transactionDepth]
        /\ UNCHANGED <<cfgVars, busVars, ttlVars, svcVars>>

\* a caller (from = 0) or the body of invocation `from` calls query
Query(from, logThrows) ==
    LET r == query(transactionDepth, logThrows)
    IN  /\ from = 0 \/ (from \in 1..Len(calls) /\ calls[from].pc = "body")
        /\ dbLast' = [op |-> "query", from |-> from, logged |-> r.logged, out |-> r.out]
        /\ UNCHANGED <<transactionDepth, calls, cfgVars, busVars, ttlVars, svcVars>>

----------------------------------------------------------------------------
(* StubPubSub.  publish is an async function without an await: it runs to its
   end when called, and hands the delivery of the event to a timer callback.
   The callback walks the array of handlers it was given, the array the Map
   holds for the topic (not a copy), awaiting each handler in turn.  Handlers
   are caller code: between the start of a handler and its completion any
   other operation of the bus may run. *)

\* the topics, handlers, payloads and idempotency keys callers use
Topics == {"t1", "t2"}
Handlers == {"h1", "h2"}
Payloads == {Str(<<"a">>), Num(1, 0)}
IdempotencyKeys == {Undefined, Str(<<>>), Str(<<"k">>)}
NoOptions == {Undefined}

\* the bounds on the publish and subscribe calls of one behaviour
MaxPublishes == 2
MaxSubscribes == 2

\* the bounds of a long run of publish calls: its length, and the calls in it
\* that are not on the first topic
MaxHistoryPublishes == 150
MaxOffTopic == 1

\* the length the history is cut back to
HistoryLimit == 100

\* what a handler invocation ends with: it returns, or it fails (throws or rejects)
HandlerOutcomes == {Returns(Undefined), Throws([name |-> "Error", message |-> <<"boom">>])}

\* a value in a condition: undefined, null, false, 0, NaN and '' are falsy
Truthy(v) ==
    CASE v.t \in {"undefined", "null"} -> FALSE
      [] v.t = "boolean" -> v.b
      [] v.t = "string" -> v # Str(<<>>)
      [] v.t = "number" -> ~isNaN(v) /\ v # Num(0, 0)
      [] OTHER -> TRUE

\* generateUUID(): the n-th value it produces (a string unlike every other one)
generateUUID(n) == [t |-> "string", uuid |-> n]

\* subscribers.get(topic) || []
handlersOf(subs, topic) == IF topic \in DOMAIN subs THEN subs[topic] ELSE <<>>

\* the envelope publish builds, n values having been generated before (occurredAt
\* and trace, a clock reading and an environment value, are left out)
envelope(topic, event, idempotencyKey, n) ==
    [id |-> generateUUID(n + 1),
     type |-> topic,
     payload |-> event,
     idempotencyKey |-> IF Truthy(idempotencyKey) THEN idempotencyKey
                        ELSE generateUUID(n + 2)]

\* eventHistory.push(envelope), then the cut to the last HistoryLimit events
pushHistoryUnbounded(history, e) == Append(history, e)

pushHistory(history, e) ==
    IF Len(history) + 1 > HistoryLimit THEN Tail(Append(history, e)) ELSE Append(history, e)

\* a publish call and its delivery task: the arguments, the envelope, what the
\* call returned, the records it logged, and the state of the timer callback:
\* pc, whether the array it walks is still the one the Map holds (attached), the
\* position of the array iterator (index: the next element, counted from 1), and
\* the handler it awaits.  Ghost fields: atPublish, the handlers at the time of
\* the call; changed, whether the array has been changed since; settled and
\* failed, the handler invocations that have ended and those that ended in failure
EventRecord(topic, event, idempotencyKey, e, handlers, pc, out, log) ==
    [topic |-> topic, event |-> event, idempotencyKey |-> idempotencyKey,
     envelope |-> e, out |-> out, log |-> log,
     pc |-> pc, attached |-> pc = "timer", index |-> 1, handler |-> "none",
     atPublish |-> handlers, changed |-> FALSE, settled |-> 0, failed |-> 0]

\* publish whose delivery starts at the second handler
publishOffByOne(subs, history, n, topic, event, idempotencyKey, infoThrows, debugThrows) ==
    [eventHistory |-> pushHistory(history, envelope(topic, event, idempotencyKey, n)),
     uuids |-> IF Truthy(idempotencyKey) THEN n + 1 ELSE n + 2,
     event |-> [EventRecord(topic, event, idempotencyKey,
                            envelope(topic, event, idempotencyKey, n),
                            handlersOf(subs, topic),
                            IF Len(handlersOf(subs, topic)) = 0 THEN "unscheduled" ELSE "timer",
                            Returns(Undefined), <<>>)
                  EXCEPT !.index = 2]]

\* publish that runs the handlers itself: the first one is invoked before it returns
publishInline(subs, history, n, topic, event, idempotencyKey, infoThrows, debugThrows) ==
    [eventHistory |-> pushHistory(history, envelope(topic, event, idempotencyKey, n)),
     uuids |-> IF Truthy(idempotencyKey) THEN n + 1 ELSE n + 2,
     event |-> IF Len(handlersOf(subs, topic)) = 0
               THEN EventRecord(topic, event, idempotencyKey,
                                envelope(topic, event, idempotencyKey, n),
                                <<>>, "unscheduled", Returns(Undefined), <<>>)
               ELSE [EventRecord(topic, event, idempotencyKey,
                                 envelope(topic, event, idempotencyKey, n),
                                 handlersOf(subs, topic), "timer", NoOutcome, <<>>)
                       EXCEPT !.pc = "handler", !.index = 2,
                              !.handler = handlersOf(subs, topic)[1]]]

\* publish that never cuts the history
publishKeepsAll(subs, history, n, topic, event, idempotencyKey, infoThrows, debugThrows) ==
    [eventHistory |-> pushHistoryUnbounded(history, envelope(topic, event, idempotencyKey, n)),
     uuids |-> IF Truthy(idempotencyKey) THEN n + 1 ELSE n + 2,
     event |-> EventRecord(topic, event, idempotencyKey,
                           envelope(topic, event, idempotencyKey, n),
                           handlersOf(subs, topic),
                           IF Len(handlersOf(subs, topic)) = 0 THEN "unscheduled" ELSE "timer",
                           Returns(Undefined), <<>>)]

\* publish that sets the delivery timer whether or not the topic has subscribers
publishAlwaysSchedules(subs, history, n, topic, event, idempotencyKey, infoThrows, debugThrows) ==
    [eventHistory |-> pushHistory(history, envelope(topic, event, idempotencyKey, n)),
     uuids |-> IF Truthy(idempotencyKey) THEN n + 1 ELSE n + 2,
     event |-> EventRecord(topic, event, idempotencyKey,
                           envelope(topic, event, idempotencyKey, n),
                           handlersOf(subs, topic), "timer", Returns(Undefined), <<>>)]

\* publish that drops an event whose idempotency key the history already holds
publishDedups(subs, history, n, topic, event, idempotencyKey, infoThrows, debugThrows) ==
    IF \E i \in 1..Len(history) : history[i].idempotencyKey = idempotencyKey
    THEN [eventHistory |-> history, uuids |-> n,
          event |-> EventRecord(topic, event, idempotencyKey,
                                envelope(topic, event, idempotencyKey, n), <<>>,
                                "unscheduled", Returns(Undefined), <<>>)]
    ELSE publishKeepsAll(subs, history, n, topic, event, idempotencyKey,
                         infoThrows, debugThrows)

\* publish(topic, event, {idempotencyKey}) on a bus whose Map is subs, whose
\* history is history and that has generated n values: the history and the count
\* afterwards, and the record of the call.  infoThrows, debugThrows: the Logger
\* call throws
publish(subs, history, n, topic, event, idempotencyKey, infoThrows, debugThrows) ==
    LET Built(e, handlers) ==
            LET info == [msg |-> "Publishing event to stub pub/sub", topic |-> topic,
                         eventId |-> e.id, idempotencyKey |-> e.idempotencyKey,
                         payloadType |-> typeof(event),
                         subscriberCount |-> Len(handlers)]
                debug == IF Len(handlers) = 0
                         THEN [msg |-> "No subscribers found for topic", topic |-> topic]
                         ELSE [msg |-> "Notifying subscribers", topic |-> topic,
                               subscriberCount |-> Len(handlers)]
            IN  IF infoThrows
                THEN [eventHistory |-> history,
                      event |-> EventRecord(topic, event, idempotencyKey, e, handlers,
                                            "unscheduled", Throws(LoggerError), <<>>)]
                ELSE IF debugThrows
                THEN [eventHistory |-> pushHistory(history, e),
                      event |-> EventRecord(topic, event, idempotencyKey, e, handlers,
                                            "unscheduled", Throws(LoggerError), <<info>>)]
                ELSE [eventHistory |-> pushHistory(history, e),
                      event |-> EventRecord(topic, event, idempotencyKey, e, handlers,
                                            IF Len(handlers) = 0 THEN "unscheduled" ELSE "timer",
                                            Returns(Undefined), <<info, debug>>)]
        WithCount(r) ==
            [eventHistory |-> r.eventHistory, event |-> r.event,
             uuids |-> IF Truthy(idempotencyKey) THEN n + 1 ELSE n + 2]
    IN  WithCount(Built(envelope(topic, event, idempotencyKey, n), handlersOf(subs, topic)))

\* handlers.indexOf(handler): the first position that holds it, counted from 1,
\* or 0 (indexOf counts from 0 and answers -1)
indexOf(handlers, handler) ==
    IF \E i \in 1..Len(handlers) : handlers[i] = handler
    THEN CHOOSE i \in 1..Len(handlers) :
            handlers[i] = handler /\ \A j \in 1..(i - 1) : handlers[j] # handler
    ELSE 0

\* handlers.splice(index, 1)
splice(handlers, index) ==
    SubSeq(handlers, 1, index - 1) \o SubSeq(handlers, index + 1, Len(handlers))

\* subscribers.delete(topic)
deleteTopic(subs, topic) == [t \in DOMAIN subs \ {topic} |-> subs[t]]

\* subscribe(topic, handler): the Map afterwards
subscribe(subs, topic, handler) ==
    IF topic \in DOMAIN subs
    THEN [subs EXCEPT ![topic] = Append(@, handler)]
    ELSE [t \in DOMAIN subs \cup {topic} |-> IF t = topic THEN <<handler>> ELSE subs[t]]

\* a cancellation function that finds the handler only past the first position
unsubscribeSkipsFirst(subs, topic, handler) ==
    IF topic \notin DOMAIN subs \/ indexOf(subs[topic], handler) <= 1
    THEN subs
    ELSE [subs EXCEPT ![topic] = splice(@, indexOf(subs[topic], handler))]

\* the cancellation function subscribe(topic, handler) returned: the Map afterwards
unsubscribe(subs, topic, handler) ==
    LET Cleaned(handlers) ==
            IF Len(handlers) = 0 THEN deleteTopic(subs, topic)
            ELSE [subs EXCEPT ![topic] = handlers]
    IN  IF topic \notin DOMAIN subs THEN subs
        ELSE IF indexOf(subs[topic], handler) > 0
        THEN Cleaned(splice(subs[topic], indexOf(subs[topic], handler)))
        ELSE Cleaned(subs[topic])

\* getSubscriptions(): topic -> the length of the array the Map holds for it
getSubscriptions(subs) == [t \in DOMAIN subs |-> Len(subs[t])]

\* a delivery that walks a copy of the array made when publish was called
arrayOfSnapshot(subs, task) == task.atPublish

\* the array a delivery task walks: the one the Map held for the topic when publish
\* was called.  Once the Map has dropped that array it is empty for good.
arrayOf(subs, task) == IF task.attached THEN handlersOf(subs, task.topic) ELSE <<>>

\* a delivery that walks the array from its end
deliverNextReversed(task, handlers) ==
    IF task.index <= Len(handlers)
    THEN [task EXCEPT !.pc = "handler", !.handler = handlers[Len(handlers) + 1 - task.index],
                      !.index = @ + 1]
    ELSE [task EXCEPT !.pc = "done", !.handler = "none", !.attached = FALSE]

\* a loop that ends after its first handler
deliverNextStopsAfterFirst(task, handlers) ==
    IF task.index <= Len(handlers) /\ task.index = 1
    THEN [task EXCEPT !.pc = "handler", !.handler = handlers[task.index], !.index = @ + 1]
    ELSE [task EXCEPT !.pc = "done", !.handler = "none", !.attached = FALSE]

\* the for...of loop of the timer callback takes its next step: the iterator reads
\* the array as it is now, and the handler found is invoked and awaited
deliverNext(task, handlers) ==
    IF task.index <= Len(handlers)
    THEN [task EXCEPT !.pc = "handler", !.handler = handlers[task.index], !.index = @ + 1]
    ELSE [task EXCEPT !.pc = "done", !.handler = "none", !.attached = FALSE]

\* a delivery without a try block: a failing handler ends it
handlerSettledUncaught(task, handlers, outcome, errorThrows) ==
    IF outcome.threw
    THEN [task EXCEPT !.pc = "aborted", !.handler = "none", !.attached = FALSE,
                      !.settled = @ + 1, !.failed = @ + 1]
    ELSE deliverNext([task EXCEPT !.settled = @ + 1], handlers)

\* the awaited handler has returned or failed: a failure is caught and logged, and
\* the loop goes on.  errorThrows: that Logger call throws, which ends the callback
handlerSettled(task, handlers, outcome, errorThrows) ==
    LET Logged(t) ==
            [t EXCEPT !.log = Append(@, [msg |-> "Event handler failed", topic |-> task.topic,
                                         eventId |-> task.envelope.id,
                                         error |-> ErrorText(outcome.error)])]
    IN  IF ~outcome.threw THEN deliverNext([task EXCEPT !.settled = @ + 1], handlers)
        ELSE IF errorThrows
        THEN [task EXCEPT !.pc = "aborted", !.handler = "none", !.attached = FALSE,
                          !.settled = @ + 1, !.failed = @ + 1]
        ELSE Logged(deliverNext([task EXCEPT !.settled = @ + 1, !.failed = @ + 1], handlers))

\* the delivery tasks after the array of a topic has been changed: a task that
\* walks it sees the change, and loses the array if the Map has dropped it
Retarget(evs, topic, subs) ==
    [d \in 1..Len(evs) |->
        IF evs[d].topic = topic /\ evs[d].attached
        THEN [evs[d] EXCEPT !.changed = TRUE, !.attached = topic \in DOMAIN subs]
        ELSE evs[d]]

\* ghost: the invocation a task has just made, as an entry of the trace
Invocation(d, task) ==
    IF task.pc = "handler"
    THEN <<[d |-> d, handler |-> task.handler, envelope |-> task.envelope]>>
    ELSE <<>>

\* a caller calls publish(topic, event, {idempotencyKey})
Publish(topic, event, idempotencyKey, infoThrows, debugThrows) ==
    \E r \in {publish(subscribers, eventHistory, uuids, topic, event, idempotencyKey,
                      infoThrows, debugThrows)} :
        /\ eventHistory' = r.eventHistory
        /\ uuids' = r.uuids
        /\ events' = Append(events, r.event)
        /\ trace' = trace \o Invocation(Len(events) + 1, r.event)
        /\ UNCHANGED <<subscribers, tokens, cfgVars, dbVars, ttlVars, svcVars>>

\* a caller calls subscribe(topic, handler) and keeps the function it returns
Subscribe(topic, handler, logThrows) ==
    /\ Len(tokens) < MaxSubscribes
    /\ ~logThrows
    /\ subscribers' = subscribe(subscribers, topic, handler)
    /\ tokens' = Append(tokens, [topic |-> topic, handler |-> handler, calls |-> 0,
                                  cancelledAt |-> 0,
                                  \* ghost: the publish calls on the topic that have
                                  \* returned and whose delivery has not started
                                  pending |-> {d \in 1..Len(events) :
                                                 /\ events[d].pc = "timer"
                                                 /\ events[d].topic = topic}])
    /\ events' = Retarget(events, topic, subscribers')
    /\ UNCHANGED <<eventHistory, uuids, trace, cfgVars, dbVars, ttlVars, svcVars>>

\* a caller invokes the k-th cancellation function (calls: how often it has been
\* invoked, 2 standing for twice or more; ghost cancelledAt: the number of publish
\* calls made before its first invocation)
Cancel(k, logThrows) ==
    /\ k \in 1..Len(tokens)
    /\ ~logThrows
    /\ subscribers' = unsubscribe(subscribers, tokens[k].topic, tokens[k].handler)
    /\ tokens' = [tokens EXCEPT ![k].calls = IF @ = 0 THEN 1 ELSE 2,
                                ![k].cancelledAt = IF tokens[k].calls = 0 THEN Len(events) ELSE @]
    /\ events' = IF subscribers' = subscribers THEN events
                 ELSE Retarget(events, tokens[k].topic, subscribers')
    /\ UNCHANGED <<eventHistory, uuids, trace, cfgVars, dbVars, ttlVars, svcVars>>

\* the tasks whose timer has not fired
Waiting == {d \in 1..Len(events) : events[d].pc = "timer"}

\* timers that fire in any order
nextTimerAnyOrder(evs) == {d \in 1..Len(evs) : evs[d].pc = "timer"}

\* the timer that fires next: all are set with the same delay, and timers of equal
\* delay fire in the order in which they were set
nextTimer(evs) ==
    {d \in 1..Len(evs) :
        /\ evs[d].pc = "timer"
        /\ \A c \in 1..Len(evs) : evs[c].pc = "timer" => d <= c}

\* the timer of the oldest waiting task fires
TimerFires ==
    \E d \in nextTimer(events) :
        /\ \E task \in {deliverNext(events[d], arrayOf(subscribers, events[d]))} :
              /\ events' = [events EXCEPT ![d] = task]
              /\ trace' = trace \o Invocation(d, task)
        /\ UNCHANGED <<subscribers, eventHistory, tokens, uuids, cfgVars, dbVars, ttlVars, svcVars>>

\* the handler task d awaits returns or fails, and the loop goes on
HandlerSettles(d, outcome, errorThrows) ==
    /\ d \in 1..Len(events) /\ events[d].pc = "handler"
    /\ \E task \in {handlerSettled(events[d], arrayOf(subscribers, events[d]),
                                   outcome, errorThrows)} :
          /\ events' = [events EXCEPT ![d] = task]
          /\ trace' = trace \o Invocation(d, task)
    /\ UNCHANGED <<subscribers, eventHistory, tokens, uuids, cfgVars, dbVars, ttlVars, svcVars>>

\* the bound on the subscriptions made in a behaviour whose handlers subscribe
MaxResubscribes == 4

\* the handler task d awaits subscribes itself to the topic once more and returns
HandlerResubscribes(d) ==
    /\ d \in 1..Len(events) /\ events[d].pc = "handler"
    /\ Len(tokens) < MaxResubscribes
    /\ subscribers' = subscribe(subscribers, events[d].topic, events[d].handler)
    /\ tokens' = Append(tokens, [topic |-> events[d].topic, handler |-> events[d].handler,
                                  calls |-> 0, cancelledAt |-> 0,
                                  pending |-> {c \in 1..Len(events) :
                                                 /\ events[c].pc = "timer"
                                                 /\ events[c].topic = events[d].topic}])
    /\ \E evs \in {Retarget(events, events[d].topic, subscribers')} :
          \E task \in {handlerSettled(evs[d], arrayOf(subscribers', evs[d]),
                                       Returns(Undefined), FALSE)} :
              /\ events' = [evs EXCEPT ![d] = task]
              /\ trace' = trace \o Invocation(d, task)
    /\ UNCHANGED <<eventHistory, uuids, cfgVars, dbVars, ttlVars, svcVars>>

----------------------------------------------------------------------------
(* StubCache.  get, set and del are async functions without an await: each runs
   to its end when called.  Date.now() is the variable `now`, which the passing
   of time advances between calls. *)

\* the keys, values and ttlSeconds arguments callers use (Undefined: no argument)
CacheKeys == {"k1", "k2"}
CacheValues == {Str(<<"a">>), Str(<<"b">>)}
TtlSamples == {Undefined, Num(0, 0), Num(1, 0), Num(2, 0), Num(0 - 1, 0)}

\* Date.now() when the cache is constructed, and the step of the clock
Clock0 == 5000
TickMs == 500

\* the bound on the steps of the clock in one behaviour
MaxTicks == 5

RECURSIVE Pow10(_)
Pow10(n) == IF n = 0 THEN 1 ELSE 10 * Pow10(n - 1)

\* ttlSeconds * 1000, for a number of at most three decimals
Times1000(v) == v.m * Pow10(v.e + 3)

\* ghost: what was last done to a key: nothing, a set, or a del
NotWritten == [state |-> "never"]
Written(value, ttlSeconds, at, over) ==
    [state |-> "set", value |-> value, ttlSeconds |-> ttlSeconds, at |-> at, over |-> over]
Deleted(existed) == [state |-> "deleted", existed |-> existed]

\* an entry { value, expires? }
Entry(value) == [value |-> value]
ExpiringEntry(value, expires) == [value |-> value, expires |-> expires]

\* store.delete(key)
deleteKey(st, key) == [k \in DOMAIN st \ {key} |-> st[k]]

\* store.set(key, entry)
setKey(st, key, entry) == [k \in DOMAIN st \cup {key} |-> IF k = key THEN entry ELSE st[k]]

\* entry.expires && Date.now() > entry.expires
Expired(entry, t) == "expires" \in DOMAIN entry /\ entry.expires # 0 /\ t > entry.expires

\* a get that leaves an expired entry in the store
cacheGetKeepsExpired(st, t, key, firstThrows, secondThrows) ==
    IF key \notin DOMAIN st
    THEN [store |-> st, out |-> Returns(Null),
          log |-> <<[msg |-> "Getting value from stub cache", key |-> key],
                    [msg |-> "Cache miss", key |-> key]>>]
    ELSE IF Expired(st[key], t)
    THEN [store |-> st, out |-> Returns(Null),
          log |-> <<[msg |-> "Getting value from stub cache", key |-> key],
                    [msg |-> "Cache entry expired", key |-> key,
                     expiredAt |-> st[key].expires]>>]
    ELSE [store |-> st, out |-> Returns(st[key].value),
          log |-> <<[msg |-> "Getting value from stub cache", key |-> key],
                    [msg |-> "Cache hit", key |-> key]>>]

\* get(key) at time t on a cache whose Map is st: the Map afterwards, what the
\* caller gets and the records logged.  firstThrows, secondThrows: the Logger
\* call throws
cacheGet(st, t, key, firstThrows, secondThrows) ==
    LET first == [msg |-> "Getting value from stub cache", key |-> key]
    IN  IF firstThrows
        THEN [store |-> st, out |-> Throws(LoggerError), log |-> <<>>]
        ELSE IF key \notin DOMAIN st
        THEN (IF secondThrows
              THEN [store |-> st, out |-> Throws(LoggerError), log |-> <<first>>]
              ELSE [store |-> st, out |-> Returns(Null),
                    log |-> <<first, [msg |-> "Cache miss", key |-> key]>>])
        ELSE IF Expired(st[key], t)
        THEN (IF secondThrows
              THEN [store |-> st, out |-> Throws(LoggerError), log |-> <<first>>]
              ELSE [store |-> deleteKey(st, key), out |-> Returns(Null),
                    log |-> <<first, [msg |-> "Cache entry expired", key |-> key,
                                      expiredAt |-> st[key].expires]>>])
        ELSE IF secondThrows
        THEN [store |-> st, out |-> Throws(LoggerError), log |-> <<first>>]
        ELSE [store |-> st, out |-> Returns(st[key].value),
              log |-> <<first, [msg |-> "Cache hit", key |-> key]>>]

\* a set that changes the value of an entry and keeps the expiry it has
cacheSetKeepsExpiry(st, t, key, value, ttlSeconds, logThrows) ==
    [store |-> setKey(st, key,
                      IF Truthy(ttlSeconds)
                      THEN ExpiringEntry(value, t + Times1000(ttlSeconds))
                      ELSE IF key \in DOMAIN st /\ "expires" \in DOMAIN st[key]
                      THEN ExpiringEntry(value, st[key].expires)
                      ELSE Entry(value)),
     out |-> Returns(Undefined),
     log |-> <<[msg |-> "Setting value in stub cache", key |-> key,
                hasTTL |-> Truthy(ttlSeconds)]>>]

\* set(key, value, ttlSeconds) at time t
cacheSet(st, t, key, value, ttlSeconds, logThrows) ==
    IF logThrows
    THEN [store |-> st, out |-> Throws(LoggerError), log |-> <<>>]
    ELSE [store |-> setKey(st, key,
                           IF Truthy(ttlSeconds)
                           THEN ExpiringEntry(value, t + Times1000(ttlSeconds))
                           ELSE Entry(value)),
          out |-> Returns(Undefined),
          log |-> <<IF Truthy(ttlSeconds)
                    THEN [msg |-> "Setting value in stub cache", key |-> key,
                          hasTTL |-> TRUE, ttlSeconds |-> ttlSeconds]
                    ELSE [msg |-> "Setting value in stub cache", key |-> key,
                          hasTTL |-> FALSE]>>]

\* a del that always answers true
cacheDelAlwaysTrue(st, key, firstThrows, secondThrows) ==
    [store |-> deleteKey(st, key), out |-> Returns(Bool(TRUE)),
     log |-> <<[msg |-> "Deleting value from stub cache", key |-> key],
               [msg |-> "Cache deletion result", key |-> key, existed |-> TRUE]>>]

\* del(key)
cacheDel(st, key, firstThrows, secondThrows) ==
    LET first == [msg |-> "Deleting value from stub cache", key |-> key]
    IN  IF firstThrows
        THEN [store |-> st, out |-> Throws(LoggerError), log |-> <<>>]
        ELSE IF secondThrows
        THEN [store |-> deleteKey(st, key), out |-> Throws(LoggerError), log |-> <<first>>]
        ELSE [store |-> deleteKey(st, key), out |-> Returns(Bool(key \in DOMAIN st)),
              log |-> <<first, [msg |-> "Cache deletion result", key |-> key,
                                existed |-> key \in DOMAIN st]>>]

\* a caller calls get(key).  Ghost field of ttlLast: had, the entry the store held
\* for the key
CacheGet(key, firstThrows, secondThrows) ==
    \E r \in {cacheGet(store, now, key, firstThrows, secondThrows)} :
        /\ store' = r.store
        /\ ttlLast' = [op |-> "get", key |-> key, out |-> r.out, log |-> r.log, at |-> now,
                       had |-> IF key \in DOMAIN store THEN <<store[key]>> ELSE <<>>]
        /\ UNCHANGED <<now, written, cfgVars, dbVars, busVars, svcVars>>

\* a caller calls set(key, value, ttlSeconds).  Ghost field of written: over, the
\* set replaced an entry that carried an expiry
CacheSet(key, value, ttlSeconds, logThrows) ==
    \E r \in {cacheSet(store, now, key, value, ttlSeconds, logThrows)} :
        /\ store' = r.store
        /\ written' = IF r.out.threw THEN written
                      ELSE [written EXCEPT ![key] =
                              Written(value, ttlSeconds, now,
                                      key \in DOMAIN store
                                        /\ "expires" \in DOMAIN store[key])]
        /\ ttlLast' = [op |-> "set", key |-> key, out |-> r.out, log |-> r.log, at |-> now]
        /\ UNCHANGED <<now, cfgVars, dbVars, busVars, svcVars>>

\* a caller calls del(key)
CacheDel(key, firstThrows, secondThrows) ==
    \E r \in {cacheDel(store, key, firstThrows, secondThrows)} :
        /\ store' = r.store
        /\ written' = IF firstThrows THEN written
                      ELSE [written EXCEPT ![key] = Deleted(key \in DOMAIN store)]
        /\ ttlLast' = [op |-> "del", key |-> key, out |-> r.out, log |-> r.log, at |-> now,
                       had |-> IF key \in DOMAIN store THEN <<store[key]>> ELSE <<>>]
        /\ UNCHANGED <<now, cfgVars, dbVars, busVars, svcVars>>

\* time passes
Tick ==
    /\ now < Clock0 + MaxTicks * TickMs
    /\ now' = now + TickMs
    /\ UNCHANGED <<store, written, ttlLast, cfgVars, dbVars, busVars, svcVars>>

----------------------------------------------------------------------------
(* createPlatformServices.  Every call builds a new EnvironmentConfig,
   StubDatabase, StubPubSub and StubCache, and each of them keeps its state in
   fields of its own: the Map of memoized values, transactionDepth, the Map of
   subscribers, the Map of entries.  process.env is the one thing the bundles
   have in common. *)

\* the calls of createPlatformServices
Bundles == {1, 2}

BundleKeys == {"k1"}
BundleTopics == {"t1"}
BundleHandlers == {"h1"}
BundleRaws == {Raw1, RawWord}

\* the fields of the services right after construction
NewServices ==
    [config |-> [k \in Keys |-> NotCached], transactionDepth |-> 0, calls |-> <<>>,
     subscribers |-> <<>>, store |-> <<>>]

\* a field that all instances of the class share
withFieldShared(bs, i, field, v) == [j \in DOMAIN bs |-> [bs[j] EXCEPT ![field] = v]]

\* this.field = v in a service of bundle i
withField(bs, i, field, v) == [bs EXCEPT ![i] = [@ EXCEPT ![field] = v]]

\* bundle i: cache.set(key, value)
ServicesCacheSet(i, key, value) ==
    \E r \in {cacheSet(bundles[i].store, now, key, value, Undefined, FALSE)} :
        /\ bundles' = withField(bundles, i, "store", r.store)
        /\ bundleLast' = [bundle |-> i, op |-> "cache.set", key |-> key, out |-> r.out]
        /\ UNCHANGED <<cfgVars, dbVars, busVars, ttlVars>>

\* bundle i: cache.get(key)
ServicesCacheGet(i, key) ==
    \E r \in {cacheGet(bundles[i].store, now, key, FALSE, FALSE)} :
        /\ bundles' = withField(bundles, i, "store", r.store)
        /\ bundleLast' = [bundle |-> i, op |-> "cache.get", key |-> key, out |-> r.out]
        /\ UNCHANGED <<cfgVars, dbVars, busVars, ttlVars>>

\* bundle i: cache.del(key)
ServicesCacheDel(i, key) ==
    \E r \in {cacheDel(bundles[i].store, key, FALSE, FALSE)} :
        /\ bundles' = withField(bundles, i, "store", r.store)
        /\ bundleLast' = [bundle |-> i, op |-> "cache.del", key |-> key, out |-> r.out]
        /\ UNCHANGED <<cfgVars, dbVars, busVars, ttlVars>>

\* bundle i: pubsub.subscribe(topic, handler), once per topic
ServicesSubscribe(i, topic, handler) ==
    /\ topic \notin DOMAIN bundles[i].subscribers
    /\ bundles' = withField(bundles, i, "subscribers",
                            subscribe(bundles[i].subscribers, topic, handler))
    /\ bundleLast' = [bundle |-> i, op |-> "pubsub.subscribe", key |-> topic,
                      out |-> Returns(Undefined)]
    /\ UNCHANGED <<cfgVars, dbVars, busVars, ttlVars>>

\* bundle i: the cancellation function of that subscription
ServicesCancel(i, topic, handler) ==
    /\ topic \in DOMAIN bundles[i].subscribers
    /\ bundles' = withField(bundles, i, "subscribers",
                            unsubscribe(bundles[i].subscribers, topic, handler))
    /\ bundleLast' = [bundle |-> i, op |-> "pubsub.cancel", key |-> topic,
                      out |-> Returns(Undefined)]
    /\ UNCHANGED <<cfgVars, dbVars, busVars, ttlVars>>

\* bundle i: db.withTx(fn) up to the start of fn, once
ServicesWithTxEnter(i) ==
    \E r \in {withTxEnter(bundles[i].transactionDepth, 0, FALSE)} :
        /\ bundles[i].calls = <<>>
        /\ bundles' = withField(withField(bundles, i, "transactionDepth", r.depth),
                                i, "calls", <<r.call>>)
        /\ bundleLast' = [bundle |-> i, op |-> "db.withTx", key |-> "", out |-> r.call.out]
        /\ UNCHANGED <<cfgVars, dbVars, busVars, ttlVars>>

\* bundle i: fn returns v and withTx settles
ServicesWithTxExit(i, v) ==
    /\ bundles[i].calls # <<>> /\ bundles[i].calls[1].pc = "body"
    /\ \E r \in {withTxExit(bundles[i].transactionDepth,
                              [bundles[i].calls[1] EXCEPT !.pc = "returned",
                                                          !.bodyOut = Returns(v)],
                              FALSE, FALSE)} :
          /\ bundles' = withField(withField(bundles, i, "transactionDepth", r.depth),
                                  i, "calls", <<r.call>>)
          /\ bundleLast' = [bundle |-> i, op |-> "db.withTx", key |-> "", out |-> r.call.out]
    /\ UNCHANGED <<cfgVars, dbVars, busVars, ttlVars>>

\* bundle i: config.get(key)
ServicesConfigGet(i, key) ==
    \E r \in {get(bundles[i].config, env, 0, key, FALSE, Undefined)} :
        /\ bundles' = withField(bundles, i, "config", r.cache)
        /\ bundleLast' = [bundle |-> i, op |-> "config.get", key |-> "", out |-> r.out]
        /\ UNCHANGED <<cfgVars, dbVars, busVars, ttlVars>>

\* an operation on a service of bundle i
OnBundle(i) ==
    \/ \E key \in BundleKeys, value \in CacheValues : ServicesCacheSet(i, key, value)
    \/ \E key \in BundleKeys : ServicesCacheGet(i, key)
    \/ \E key \in BundleKeys : ServicesCacheDel(i, key)
    \/ \E topic \in BundleTopics, handler \in BundleHandlers :
          ServicesSubscribe(i, topic, handler)
    \/ \E topic \in BundleTopics, handler \in BundleHandlers :
          ServicesCancel(i, topic, handler)
    \/ ServicesWithTxEnter(i)
    \/ \E v \in BodyResults : ServicesWithTxExit(i, v)
    \/ \E key \in {KeyA} : ServicesConfigGet(i, key)

\* what the read operations of a bundle's services answer
Answers(b) ==
    [get |-> [k \in BundleKeys |-> cacheGet(b.store, now, k, FALSE, FALSE).out],
     subscriptions |-> getSubscriptions(b.subscribers),
     query |-> query(b.transactionDepth, FALSE).logged,
     config |-> get(b.config, env, 0, KeyA, FALSE, Undefined).out]

----------------------------------------------------------------------------
(* Specifications *)

InitConfig ==
    /\ env = [k \in Keys |-> Undefined]
    /\ cache = [k \in Keys |-> NotCached]
    /\ returned = [k \in Keys |-> NotCached]
    /\ last = [op |-> "init"]

InitDb ==
    /\ transactionDepth = 0
    /\ calls = <<>>
    /\ dbLast = [op |-> "init"]

InitBus ==
    /\ subscribers = <<>>
    /\ eventHistory = <<>>
    /\ events = <<>>
    /\ tokens = <<>>
    /\ uuids = 0
    /\ trace = <<>>

InitCache ==
    /\ store = <<>>
    /\ now = Clock0
    /\ written = [k \in CacheKeys |-> NotWritten]
    /\ ttlLast = [op |-> "init", key |-> "", out |-> NoOutcome, at |-> Clock0]

InitServices ==
    /\ bundles = [i \in Bundles |-> NewServices]
    /\ bundleLast = [bundle |-> 0, op |-> "init", key |-> "", out |-> NoOutcome]

Init == InitConfig /\ InitDb /\ InitBus /\ InitCache /\ InitServices

\* the keys callers of get use
GetKeys == {KeyA, KeyAB}

NextConfig ==
    \/ \E key \in GetKeys, required \in BOOLEAN, default \in DefaultSamples :
          Get(key, required, default)
    \/ ClearCache
    \/ \E prefix \in PrefixSamples : GetKeysWithPrefix(prefix)
    \/ \E key \in GetKeys, raw \in RawSamples : SetEnv(key, raw)
    \/ \E key \in GetKeys : DeleteEnv(key)

SpecConfig == Init /\ [][NextConfig]_vars

\* a store whose clearCache is never called, in a process that changes its
\* environment, also in answer to a failed get
NextCorrected ==
    \/ \E key \in GetKeys, required \in BOOLEAN, default \in DefaultSamples :
          Get(key, required, default)
    \/ \E key \in GetKeys, raw \in RawSamples : SetEnv(key, raw)
    \/ \E key \in GetKeys, raw \in RawSamples : CorrectEnv(key, raw)
    \/ \E key \in GetKeys : DeleteEnv(key)

SpecCorrected == Init /\ [][NextCorrected]_vars

\* the ConfigStore in a process whose environment is set once, before the store is used
InitFixedEnv ==
    /\ env \in [Keys -> {Undefined} \cup {Str(raw) : raw \in RawSamples}]
    /\ env[KeyB] = Undefined
    /\ cache = [k \in Keys |-> NotCached]
    /\ returned = [k \in Keys |-> NotCached]
    /\ last = [op |-> "init"]
    /\ InitDb /\ InitBus /\ InitCache /\ InitServices

NextFixedEnv ==
    \/ \E key \in GetKeys, required \in BOOLEAN, default \in DefaultSamples :
          Get(key, required, default)
    \/ ClearCache
    \/ \E prefix \in PrefixSamples : GetKeysWithPrefix(prefix)

SpecConfigFixedEnv == InitFixedEnv /\ [][NextFixedEnv]_vars

\* a store read without defaults, in a process whose environment holds one raw value
InitConvert ==
    /\ \E raw \in AutoSamples : env = [k \in Keys |-> IF k = KeyA THEN Str(raw) ELSE Undefined]
    /\ cache = [k \in Keys |-> NotCached]
    /\ returned = [k \in Keys |-> NotCached]
    /\ last = [op |-> "init"]
    /\ InitDb /\ InitBus /\ InitCache /\ InitServices

NextConvert ==
    \/ \E required \in BOOLEAN : Get(KeyA, required, Undefined)
    \/ ClearCache

SpecConvert == InitConvert /\ [][NextConvert]_vars

\* the Logger calls that throw: none, with the loggers the repository ships
LoggerFaults == {FALSE}

NextDb ==
    \/ \E parent \in 0..MaxCalls, logThrows \in LoggerFaults : WithTxEnter(parent, logThrows)
    \/ \E c \in 1..MaxCalls, v \in BodyResults : BodyReturns(c, v)
    \/ \E c \in 1..MaxCalls, error \in BodyErrors : BodyThrows(c, error)
    \/ \E c \in 1..MaxCalls, commitLogThrows \in LoggerFaults, rollbackLogThrows \in LoggerFaults :
          WithTxExit(c, commitLogThrows, rollbackLogThrows)
    \/ \E from \in 0..MaxCalls, logThrows \in LoggerFaults : Query(from, logThrows)

SpecDb == Init /\ [][NextDb]_vars

\* a Logger whose calls may throw: the stubs take any object with the four methods
FaultyLogger == BOOLEAN

\* the handle used with a Logger whose calls may throw
NextDbFaulty ==
    \/ \E parent \in 0..MaxCalls, logThrows \in FaultyLogger : WithTxEnter(parent, logThrows)
    \/ \E c \in 1..MaxCalls, v \in BodyResults : BodyReturns(c, v)
    \/ \E c \in 1..MaxCalls, error \in BodyErrors : BodyThrows(c, error)
    \/ \E c \in 1..MaxCalls, commitLogThrows \in FaultyLogger, rollbackLogThrows \in FaultyLogger :
          WithTxExit(c, commitLogThrows, rollbackLogThrows)
    \/ \E from \in 0..MaxCalls, logThrows \in FaultyLogger : Query(from, logThrows)

SpecDbFaulty == Init /\ [][NextDbFaulty]_vars

NextBus ==
    \/ \E topic \in Topics, event \in Payloads, idempotencyKey \in NoOptions,
          infoThrows \in LoggerFaults, debugThrows \in LoggerFaults :
          Len(events) < MaxPublishes
            /\ Publish(topic, event, idempotencyKey, infoThrows, debugThrows)
    \/ \E topic \in Topics, handler \in Handlers, logThrows \in LoggerFaults :
          Subscribe(topic, handler, logThrows)
    \/ \E k \in 1..MaxSubscribes, logThrows \in LoggerFaults : Cancel(k, logThrows)
    \/ TimerFires
    \/ \E d \in 1..MaxPublishes, outcome \in HandlerOutcomes, errorThrows \in LoggerFaults :
          HandlerSettles(d, outcome, errorThrows)

SpecBus == Init /\ [][NextBus]_vars

\* callers that publish with options, on a bus whose deliveries have not started
NextPublish ==
    \/ \E topic \in Topics, event \in Payloads, idempotencyKey \in IdempotencyKeys,
          infoThrows \in LoggerFaults, debugThrows \in LoggerFaults :
          Len(events) < MaxPublishes
            /\ Publish(topic, event, idempotencyKey, infoThrows, debugThrows)
    \/ \E topic \in Topics, handler \in Handlers, logThrows \in LoggerFaults :
          Len(tokens) < 1 /\ Subscribe(topic, handler, logThrows)

SpecPublish == Init /\ [][NextPublish]_vars

\* callers that publish to one topic, every time with the same idempotency key
RepeatedKey == Str(<<"k">>)

NextRepeatedKey ==
    \/ \E event \in Payloads, infoThrows \in LoggerFaults, debugThrows \in LoggerFaults :
          Len(events) < MaxPublishes
            /\ Publish("t1", event, RepeatedKey, infoThrows, debugThrows)
    \/ \E handler \in Handlers, logThrows \in LoggerFaults :
          Subscribe("t1", handler, logThrows)
    \/ \E k \in 1..MaxSubscribes, logThrows \in LoggerFaults : Cancel(k, logThrows)
    \/ TimerFires
    \/ \E d \in 1..MaxPublishes, outcome \in HandlerOutcomes, errorThrows \in LoggerFaults :
          HandlerSettles(d, outcome, errorThrows)

SpecRepeatedKey == Init /\ [][NextRepeatedKey]_vars

\* a bus without cancellations, whose timers fire and whose handler invocations
\* all complete
NextDelivery ==
    \/ \E topic \in Topics, infoThrows \in LoggerFaults, debugThrows \in LoggerFaults :
          Len(events) < MaxPublishes
            /\ Publish(topic, Str(<<"a">>), Undefined, infoThrows, debugThrows)
    \/ \E topic \in Topics, handler \in Handlers, logThrows \in LoggerFaults :
          Subscribe(topic, handler, logThrows)
    \/ TimerFires
    \/ \E d \in 1..MaxPublishes, outcome \in HandlerOutcomes, errorThrows \in LoggerFaults :
          HandlerSettles(d, outcome, errorThrows)

FairDelivery ==
    /\ Init /\ [][NextDelivery]_vars
    /\ WF_vars(TimerFires)
    /\ \A d \in 1..MaxPublishes :
          WF_vars(\E outcome \in HandlerOutcomes : HandlerSettles(d, outcome, FALSE))

\* a bus whose handlers subscribe themselves again on every invocation, and return
NextResubscribe ==
    \/ \E topic \in Topics, event \in Payloads, infoThrows \in LoggerFaults,
          debugThrows \in LoggerFaults :
          Len(events) < MaxPublishes
            /\ Publish(topic, event, Undefined, infoThrows, debugThrows)
    \/ \E topic \in Topics, handler \in Handlers, logThrows \in LoggerFaults :
          Subscribe(topic, handler, logThrows)
    \/ TimerFires
    \/ \E d \in 1..MaxPublishes : HandlerResubscribes(d)

FairResubscribe ==
    /\ Init /\ [][NextResubscribe]_vars
    /\ WF_vars(TimerFires)
    /\ \A d \in 1..MaxPublishes : WF_vars(HandlerResubscribes(d))

\* a long run of publish calls, on a bus with one subscriber or none
OffTopic == {d \in 1..Len(events) : events[d].topic # "t1"}

NextHistory ==
    \/ \E topic \in Topics, infoThrows \in LoggerFaults, debugThrows \in LoggerFaults :
          /\ Len(events) < MaxHistoryPublishes
          /\ topic = "t1" \/ Cardinality(OffTopic) < MaxOffTopic
          /\ Publish(topic, Str(<<"a">>), Undefined, infoThrows, debugThrows)
    \/ \E logThrows \in LoggerFaults :
          Len(events) = 0 /\ Len(tokens) = 0 /\ Subscribe("t1", "h1", logThrows)

SpecHistory == Init /\ [][NextHistory]_vars

NextCache ==
    \/ \E key \in CacheKeys, firstThrows \in LoggerFaults, secondThrows \in LoggerFaults :
          CacheGet(key, firstThrows, secondThrows)
    \/ \E key \in CacheKeys, value \in CacheValues, ttlSeconds \in TtlSamples,
          logThrows \in LoggerFaults :
          CacheSet(key, value, ttlSeconds, logThrows)
    \/ \E key \in CacheKeys, firstThrows \in LoggerFaults, secondThrows \in LoggerFaults :
          CacheDel(key, firstThrows, secondThrows)
    \/ Tick

SpecCache == Init /\ [][NextCache]_vars

\* callers that use one key of the cache
OneKey == {"k1"}

NextOneKey ==
    \/ \E key \in OneKey, firstThrows \in LoggerFaults, secondThrows \in LoggerFaults :
          CacheGet(key, firstThrows, secondThrows)
    \/ \E key \in OneKey, value \in CacheValues, ttlSeconds \in TtlSamples,
          logThrows \in LoggerFaults :
          CacheSet(key, value, ttlSeconds, logThrows)
    \/ \E key \in OneKey, firstThrows \in LoggerFaults, secondThrows \in LoggerFaults :
          CacheDel(key, firstThrows, secondThrows)
    \/ Tick

SpecOneKey == Init /\ [][NextOneKey]_vars

\* two bundles of services in one process
NextServices ==
    \/ \E i \in Bundles : OnBundle(i)
    \/ \E raw \in BundleRaws : SetEnv(KeyA, raw)

SpecServices == Init /\ [][NextServices]_vars

Next == NextConfig \/ NextDb \/ NextBus \/ NextCache \/ NextServices

Spec == Init /\ [][Next]_vars

----------------------------------------------------------------------------
(* Properties of the ConfigStore *)

\* two values are equal (toEqual): objects by content, other values by value
SameValue(a, b) == IF a.t = "object" /\ b.t = "object" THEN a.j = b.j ELSE a = b

\* the key is absent from the environment, or set to the empty string
Missing(key) == env[key] = Undefined \/ env[key] = Str(<<>>)

\* the ConfigError a caller got names the key
NamesKey(out, key) ==
    /\ out.threw
    /\ out.error.name = "ConfigError"
    /\ \E i \in 1..(Len(out.error.message) - Len(key) + 1) :
           SubSeq(out.error.message, i, i + Len(key) - 1) = key

\* C1: once a get of key k has returned a value, every later get of k, with any
\* options and whatever the environment has become, returns that same value (the
\* same object, for a structured value) until clearCache is called.
Thm_C1_Memoized ==
    (last.op = "get" /\ last.prev # NotCached)
        => (~last.out.threw /\ last.out.v = last.prev)

\* C1 witness: a get returns the array it parsed earlier, the same object, although
\* the environment no longer holds the text it was parsed from
Wit_C1_Memoized ==
    /\ last.op = "get"
    /\ last.prev.t = "object" /\ last.prev.ref >= 0
    /\ last.out.v = last.prev
    /\ env[last.key] # Str(RawList)

\* C2: get(k, {required: true}) on a key that is absent or empty raises a
\* ConfigError naming k, in every state of the store.
Cex_C2_RequiredMissing ==
    (last.op = "get" /\ last.required /\ Missing(last.key))
        => NamesKey(last.out, last.key)

\* C3: get(k, {default: d}) on a key absent from the environment returns d
\* unchanged, in every state of the store.
Cex_C3_DefaultReturned ==
    (last.op = "get" /\ ~last.required /\ last.default # Undefined
       /\ env[last.key] = Undefined)
        => (~last.out.threw /\ last.out.v = last.default)

\* the raw string denotes a number: trimmed, it is a numeric literal
DenotesNumber(raw) == Trim(raw) # <<>> /\ ~isNaN(Number(raw))

\* C4: with k present and a numeric default, a raw value that is not a number makes
\* get raise a ConfigError (stated for a key that is not memoized yet).
Cex_C4_HintedNumberFails ==
    (last.op = "get" /\ last.prev = NotCached /\ ~Missing(last.key)
       /\ typeof(last.default) = "number" /\ ~DenotesNumber(env[last.key].s))
        => (last.out.threw /\ last.out.error.name = "ConfigError")

\* C4, the part that holds: a boolean default with a raw value outside
\* true/1/yes/false/0/no, and an object default with a raw value that is no JSON
\* text, make get raise a ConfigError (for a key that is not memoized yet).
Aux_C4_HintedBooleanJsonFail ==
    (last.op = "get" /\ last.prev = NotCached /\ ~Missing(last.key))
        => /\ (typeof(last.default) = "boolean"
                 /\ toLowerCase(env[last.key].s) \notin
                      {<<"t", "r", "u", "e">>, <<"1">>, <<"y", "e", "s">>,
                       <<"f", "a", "l", "s", "e">>, <<"0">>, <<"n", "o">>})
                => (last.out.threw /\ last.out.error.name = "ConfigError")
           /\ (typeof(last.default) = "object" /\ ~JSONparse(env[last.key].s, 0).ok)
                => (last.out.threw /\ last.out.error.name = "ConfigError")

\* C5: the first get after clearCache gives what resolving the key from the current
\* environment gives on a store that has memoized nothing, whatever was memoized
\* when clearCache was called.
Thm_C5_ReloadAfterClear ==
    (last.op = "get" /\ last.afterClear)
        => LET fresh == resolve([k \in Keys |-> NotCached], env, 0,
                                last.key, last.required, last.default).out
           IN  /\ last.out.threw = fresh.threw
               /\ last.out.error = fresh.error
               /\ SameValue(last.out.v, fresh.v)

\* C5 witness: 1 was memoized for the key, the environment value then became "x",
\* and the first get(k) after clearCache returns "x"
Wit_C5_ReloadAfterClear ==
    /\ last.op = "get" /\ last.afterClear
    /\ ~last.required /\ last.default = Undefined
    /\ last.cleared = Num(1, 0)
    /\ last.out = Returns(Str(RawWord))

\* C6: in an environment that does not change, get(k) right after clearCache
\* returns a value equal to the one get(k) returned right before clearCache.
Cex_C6_ClearIdempotent ==
    (last.op = "get" /\ last.before.op = "get")
        => (~last.out.threw /\ SameValue(last.out.v, last.before.out.v))

\* p is a prefix of key
IsPrefix(p, key) == \E rest \in {SubSeq(key, i, Len(key)) : i \in 1..(Len(key) + 1)} : key = p \o rest

\* C7: getKeysWithPrefix(p) returns exactly the entries the environment holds now
\* whose key starts with p, with their raw values, whatever is memoized.
Thm_C7_KeysWithPrefix ==
    (last.op = "getKeysWithPrefix")
        => /\ DOMAIN last.result = {k \in Keys : env[k] # Undefined /\ IsPrefix(last.prefix, k)}
           /\ \A k \in DOMAIN last.result : Str(last.result[k]) = env[k]

\* C7 witness: with a stale value memoized for key A, getKeysWithPrefix("AB") returns
\* the entry of AB alone, whose value is the empty string
Wit_C7_KeysWithPrefix ==
    /\ last.op = "getKeysWithPrefix"
    /\ last.prefix = KeyAB
    /\ env[KeyA] # Undefined /\ env[KeyAB] = Str(<<>>)
    /\ cache[KeyA] = Num(1, 0) /\ env[KeyA] # Str(Raw1)
    /\ DOMAIN last.result = {KeyAB}

----------------------------------------------------------------------------
(* Properties of the TransactionalStore *)

RECURSIVE Scopes(_)
\* the withTx invocations that enclose the body of invocation c, itself included
Scopes(c) == IF c = 0 THEN {} ELSE {c} \cup Scopes(calls[c].parent)

\* C8: the depth is never negative; it counts the withTx invocations in progress,
\* each entry having incremented it once and each exit (body returned or threw)
\* having decremented it once; with no invocation in progress it is 0.
Thm_C8_DepthPaired ==
    /\ transactionDepth >= 0
    /\ transactionDepth = Cardinality(InProgress)
    /\ InProgress = {} => transactionDepth = 0
    /\ dbLast.op = "withTx" => transactionDepth = dbLast.depthBefore + 1
    /\ dbLast.op = "exit" => transactionDepth = dbLast.depthBefore - 1

\* C8 witness: a nested invocation whose body threw has exited, as has its parent,
\* and no invocation is in progress
Wit_C8_DepthPaired ==
    /\ dbLast.op = "exit"
    /\ InProgress = {}
    /\ \E c \in 1..Len(calls) : calls[c].parent # 0 /\ calls[c].bodyOut.threw
    /\ transactionDepth = 0

\* C9: a query issued in the innermost body of N nested withTx scopes, with no
\* other invocation in progress, observes transactionDepth = N (0 outside any
\* withTx, with the "[TX] " prefix exactly inside one), and once every invocation
\* has settled the depth is 0.
Thm_C9_QueryObservesNesting ==
    /\ (dbLast.op = "query" /\ InProgress = Scopes(dbLast.from))
          => /\ Len(dbLast.logged) = 1
             /\ dbLast.logged[1].transactionDepth = Cardinality(Scopes(dbLast.from))
             /\ dbLast.logged[1].prefix = (IF dbLast.from = 0 THEN "" ELSE "[TX] ")
             /\ dbLast.out = Returns(Obj(JArray(<<>>), 0))
    /\ (\A c \in 1..Len(calls) : calls[c].pc = "settled") => transactionDepth = 0

\* C9 witness: a query in the body of a withTx nested in another observes depth 2
Wit_C9_QueryObservesNesting ==
    /\ dbLast.op = "query"
    /\ dbLast.from # 0 /\ calls[dbLast.from].parent # 0
    /\ Cardinality(Scopes(dbLast.from)) = 2
    /\ InProgress = Scopes(dbLast.from)
    /\ dbLast.logged[1].transactionDepth = 2

\* C10: a settled withTx gives its caller what its body gave: the body's result
\* after a commit record, or the very value the body threw after a rollback record
\* carrying its text; the depth is decremented in the step that settles it, and
\* invocations made after a failed one behave the same.
Thm_C10_BodyOutcomePropagates ==
    /\ \A c \in 1..Len(calls) :
          calls[c].pc = "settled"
            => /\ calls[c].out = calls[c].bodyOut
               /\ LET end == calls[c].log[Len(calls[c].log)]
                  IN  IF calls[c].bodyOut.threw
                      THEN /\ end.msg = "Database transaction rolled back"
                           /\ end.error = ErrorText(calls[c].bodyOut.error)
                      ELSE end.msg = "Database transaction committed"
    /\ (dbLast.op = "exit" /\ calls[dbLast.call].out.threw)
          => transactionDepth = dbLast.depthBefore - 1

\* C10 witness: an invocation rejected with the non-Error value its body threw, and
\* an invocation started after that resolved with its body's result
Wit_C10_BodyOutcomePropagates ==
    \E c, d \in 1..Len(calls) :
        /\ c < d
        /\ calls[c].pc = "settled" /\ calls[c].out = Throws(Str(<<"oops">>))
        /\ calls[d].parent = 0
        /\ calls[d].pc = "settled" /\ calls[d].out = Returns(Str(<<"b">>))
        /\ calls[d].log[1].transactionDepth = 0

----------------------------------------------------------------------------
(* Properties of the StubPubSub *)

\* getEventHistory(): a copy of the history
getEventHistory(history) == [i \in 1..Len(history) |-> history[i]]

\* the positions of the trace that are invocations for the event of publish call d
InvocationsOf(d) == {i \in 1..Len(trace) : trace[i].d = d}

\* the handlers invoked for the event of publish call d, in the order of invocation
RECURSIVE HandlersInvoked(_, _)
HandlersInvoked(tr, d) ==
    IF tr = <<>> THEN <<>>
    ELSE (IF Head(tr).d = d THEN <<Head(tr).handler>> ELSE <<>>)
           \o HandlersInvoked(Tail(tr), d)

\* how often handler h occurs in an array of handlers
Occurrences(handlers, h) == Cardinality({j \in 1..Len(handlers) : handlers[j] = h})

\* the delivery of publish call d has finished, and the subscriber array of its
\* topic was not touched between the call and the end of the delivery
Undisturbed(d) == events[d].pc = "done" /\ ~events[d].changed

\* C11: every subscription held on t when publish(t, payload) is called receives
\* the event exactly once: when the delivery has finished (no subscribe or
\* cancellation on t meanwhile), each handler has been invoked as often as it was
\* subscribed and no other handler has; every invocation is given the envelope of
\* that call, whose type is t and whose payload is the published payload.
Thm_C11_DeliveredOnce ==
    /\ \A d \in 1..Len(events) :
          Undisturbed(d) =>
             \A h \in Handlers :
                Cardinality({i \in InvocationsOf(d) : trace[i].handler = h})
                   = Occurrences(events[d].atPublish, h)
    /\ \A i \in 1..Len(trace) :
          /\ trace[i].envelope = events[trace[i].d].envelope
          /\ trace[i].envelope.type = events[trace[i].d].topic
          /\ trace[i].envelope.payload = events[trace[i].d].event

\* C11 witness: two subscribers on the topic, the other topic having been
\* published to as well, and both handlers have received the event, once each
Wit_C11_DeliveredOnce ==
    \E d \in 1..Len(events) :
        /\ Undisturbed(d)
        /\ events[d].atPublish = <<"h1", "h2">>
        /\ HandlersInvoked(trace, d) = <<"h1", "h2">>
        /\ \E c \in 1..Len(events) : events[c].topic # events[d].topic

\* the cancellation functions of the subscriptions of handler h on topic t
TokensOf(t, h) == {k \in 1..Len(tokens) : tokens[k].topic = t /\ tokens[k].handler = h}

\* C12: a handler is never invoked with the event of a publish call made when the
\* cancellation function of each of its subscriptions on the topic had already
\* been invoked (and it had not subscribed again).
Thm_C12_CancelledNotInvoked ==
    \A i \in 1..Len(trace) :
        \E k \in TokensOf(events[trace[i].d].topic, trace[i].handler) :
            tokens[k].calls = 0 \/ tokens[k].cancelledAt >= trace[i].d

\* C12 witness: h1 and h2 subscribed, the cancellation function of h1 was invoked,
\* and the delivery of an event published after that has invoked h2 alone
Wit_C12_CancelledNotInvoked ==
    \E d \in 1..Len(events), k \in 1..Len(tokens) :
        /\ tokens[k].topic = events[d].topic /\ tokens[k].handler = "h1"
        /\ tokens[k].calls >= 1 /\ tokens[k].cancelledAt < d
        /\ events[d].pc = "done"
        /\ HandlersInvoked(trace, d) = <<"h2">>

\* C13: getEventHistory() is the min(n, 100) most recent of the n envelopes
\* published, in publish order.
Thm_C13_HistoryBound ==
    LET n == Len(events)
        kept == IF n < HistoryLimit THEN n ELSE HistoryLimit
    IN  /\ Len(getEventHistory(eventHistory)) = kept
        /\ \A i \in 1..kept : getEventHistory(eventHistory)[i] = events[n - kept + i].envelope

\* C13 witness: after 150 publish calls the history is the envelopes of calls 51 to 150
Wit_C13_HistoryBound ==
    /\ Len(events) = 150
    /\ Len(eventHistory) = 100
    /\ eventHistory[1] = events[51].envelope
    /\ eventHistory[100] = events[150].envelope
    /\ \E d \in 1..Len(events) : events[d].topic = "t2"

\* C14: a publish call invokes no handler: when it returns (it has returned when
\* its record exists) the delivery is a timer that has not fired, and the call
\* has not waited for any handler.
Thm_C14_PublishDefers ==
    [][Len(events') > Len(events)
         => /\ trace' = trace
            /\ events'[Len(events')].out = Returns(Undefined)
            /\ events'[Len(events')].pc \in {"timer", "unscheduled"}]_vars

\* C14 witness: publish has returned on a topic with two subscribers, and neither
\* has been invoked
Wit_C14_PublishDefers ==
    \E d \in 1..Len(events) :
        /\ events[d].out = Returns(Undefined)
        /\ events[d].pc = "timer"
        /\ Len(events[d].atPublish) = 2
        /\ InvocationsOf(d) = {}

\* the records of failed handlers the delivery of publish call d has logged
FailureRecords(d) ==
    {i \in 1..Len(events[d].log) : events[d].log[i].msg = "Event handler failed"}

\* C15: a failing handler does not end the delivery and does not reach the
\* publisher: each failure is logged with the topic and the event id, the publish
\* call has returned normally, and when the delivery has finished (no subscribe
\* or cancellation on the topic meanwhile) every handler has been invoked.
Thm_C15_FailureIsolated ==
    \A d \in 1..Len(events) :
        events[d].failed > 0 =>
            /\ events[d].pc # "aborted"
            /\ events[d].out = Returns(Undefined)
            /\ Cardinality(FailureRecords(d)) = events[d].failed
            /\ \A i \in FailureRecords(d) :
                  /\ events[d].log[i].topic = events[d].topic
                  /\ events[d].log[i].eventId = events[d].envelope.id
            /\ Undisturbed(d) => Cardinality(InvocationsOf(d)) = Len(events[d].atPublish)

\* C15 witness: both handlers of a topic failed, the second having been invoked
\* after the failure of the first
Wit_C15_FailureIsolated ==
    \E d \in 1..Len(events) :
        /\ Undisturbed(d)
        /\ events[d].failed = 2
        /\ HandlersInvoked(trace, d) = <<"h1", "h2">>

\* C16: the delivery of one event awaits one handler at a time (the invocations
\* started are the ones that have ended, and the one awaited), and a finished
\* delivery (no subscribe or cancellation on the topic meanwhile) has invoked the
\* handlers in the order in which they subscribed.
Thm_C16_SubscriptionOrder ==
    \A d \in 1..Len(events) :
        /\ Cardinality(InvocationsOf(d))
              = events[d].settled + (IF events[d].pc = "handler" THEN 1 ELSE 0)
        /\ Undisturbed(d) => HandlersInvoked(trace, d) = events[d].atPublish

\* C16 witness: h2 subscribed before h1, and the delivery invoked h2, awaited its
\* end, then invoked h1
Wit_C16_SubscriptionOrder ==
    \E d \in 1..Len(events) :
        /\ ~events[d].changed
        /\ events[d].atPublish = <<"h2", "h1">>
        /\ tokens[1].handler = "h2"
        /\ events[d].pc = "handler" /\ events[d].handler = "h1"
        /\ events[d].settled = 1
        /\ HandlersInvoked(trace, d) = <<"h2", "h1">>

\* C17: invoking a cancellation function that has been invoked before changes no
\* subscriber array (and so no subscriber count).
Cex_C17_CancelTwiceNoOp ==
    [][\A k \in 1..MaxSubscribes :
          (k <= Len(tokens) /\ tokens[k].calls >= 1 /\ Cancel(k, FALSE))
             => subscribers' = subscribers]_vars

\* C17, the part that holds: a second invocation changes nothing when the handler
\* holds no other subscription on the topic
Aux_C17_CancelTwiceSingle ==
    [][\A k \in 1..MaxSubscribes :
          (/\ k <= Len(tokens) /\ tokens[k].calls >= 1 /\ Cancel(k, FALSE)
           /\ TokensOf(tokens[k].topic, tokens[k].handler) = {k})
             => subscribers' = subscribers]_vars

\* the envelope of publish call d carries a generated idempotency key: a value of
\* generateUUID that no other field of any envelope holds
FreshKey(d) ==
    /\ \E n \in 1..uuids : events[d].envelope.idempotencyKey = generateUUID(n)
    /\ events[d].envelope.idempotencyKey # events[d].envelope.id
    /\ \A c \in 1..Len(events) :
          c # d => /\ events[c].envelope.idempotencyKey # events[d].envelope.idempotencyKey
                   /\ events[c].envelope.id # events[d].envelope.idempotencyKey

\* C18: the idempotencyKey of the envelope is the caller's, for every string the
\* caller supplies, and a freshly generated value only when the caller supplies none.
Cex_C18_IdempotencyKey ==
    \A d \in 1..Len(events) :
        IF events[d].idempotencyKey = Undefined
        THEN FreshKey(d)
        ELSE events[d].envelope.idempotencyKey = events[d].idempotencyKey

\* C18, the part that holds: a non-empty key is propagated, and a call without a
\* key gets a fresh one
Aux_C18_NonEmptyKey ==
    \A d \in 1..Len(events) :
        /\ events[d].idempotencyKey = Undefined => FreshKey(d)
        /\ Truthy(events[d].idempotencyKey)
              => events[d].envelope.idempotencyKey = events[d].idempotencyKey

----------------------------------------------------------------------------
(* Properties of the StubCache *)

\* the time a get was called at, counted from the set that last wrote its key
Elapsed == ttlLast.at - written[ttlLast.key].at

\* the last operation is a get of a key last written by a set with ttlSeconds > 0
GetOfExpiring ==
    /\ ttlLast.op = "get"
    /\ written[ttlLast.key].state = "set"
    /\ written[ttlLast.key].ttlSeconds # Undefined
    /\ Times1000(written[ttlLast.key].ttlSeconds) > 0

\* C19: after set(k, v, ttl) with ttl > 0, a get(k) before ttl seconds have passed
\* returns v; a get(k) after more than ttl seconds returns null and the store holds
\* no entry for k afterwards: the first such get logs the expiry, a later one finds
\* no entry and logs an ordinary miss.
Thm_C19_TtlExpiry ==
    GetOfExpiring =>
        /\ Elapsed < Times1000(written[ttlLast.key].ttlSeconds)
              => ttlLast.out = Returns(written[ttlLast.key].value)
        /\ Elapsed > Times1000(written[ttlLast.key].ttlSeconds)
              => /\ ttlLast.out = Returns(Null)
                 /\ ttlLast.key \notin DOMAIN store
                 /\ ttlLast.log[2].msg = IF ttlLast.had = <<>> THEN "Cache miss"
                                         ELSE "Cache entry expired"

\* C19 witness: the key was set with a TTL of one second, more than a second has
\* passed, an earlier get has evicted the entry and this get is an ordinary miss
Wit_C19_TtlExpiry ==
    /\ GetOfExpiring
    /\ written[ttlLast.key].ttlSeconds = Num(1, 0)
    /\ Elapsed > 1000
    /\ ttlLast.had = <<>>
    /\ ttlLast.out = Returns(Null)
    /\ ttlLast.log[2].msg = "Cache miss"

\* C20: del(k) leaves no entry for k and returns true exactly when the store held
\* one; a get(k) after del(k), k not having been set again, returns null.
Thm_C20_Delete ==
    /\ ttlLast.op = "del"
          => /\ ttlLast.key \notin DOMAIN store
             /\ ttlLast.out = Returns(Bool(ttlLast.had # <<>>))
    /\ (ttlLast.op = "get" /\ written[ttlLast.key].state = "deleted")
          => ttlLast.out = Returns(Null) /\ ttlLast.had = <<>>

\* C20 witness: a key that held an entry was deleted, time has passed, and a get
\* of it returns null
Wit_C20_Delete ==
    /\ ttlLast.op = "get"
    /\ written[ttlLast.key].state = "deleted" /\ written[ttlLast.key].existed
    /\ ttlLast.out = Returns(Null)
    /\ ttlLast.at > Clock0

----------------------------------------------------------------------------
(* Properties of the stubs under a failing Logger, of instances, of the
   conversion without a default, and of the bus and the cache *)

\* C21: a Logger call that throws changes neither what an operation returns nor
\* the state it leaves: query returns what it returns when logging succeeds, withTx
\* enters its body with the depth raised, and withTx settles with the outcome and
\* the depth it has when logging succeeds
Cex_C21_LoggerFailureIgnored ==
    [][/\ \A from \in 0..MaxCalls, logThrows \in FaultyLogger :
            Query(from, logThrows) => dbLast'.out = query(transactionDepth, FALSE).out
       /\ \A parent \in 0..MaxCalls, logThrows \in FaultyLogger :
            WithTxEnter(parent, logThrows)
              => /\ transactionDepth' = withTxEnter(transactionDepth, parent, FALSE).depth
                 /\ calls'[Len(calls')] = withTxEnter(transactionDepth, parent, FALSE).call
       /\ \A c \in 1..MaxCalls, commitLogThrows \in FaultyLogger, rollbackLogThrows \in FaultyLogger :
            WithTxExit(c, commitLogThrows, rollbackLogThrows)
              => /\ transactionDepth' = withTxExit(transactionDepth, calls[c], FALSE, FALSE).depth
                 /\ calls'[c].out = withTxExit(transactionDepth, calls[c], FALSE, FALSE).call.out
      ]_vars

\* C21, the part that holds: whatever the Logger does, the continuation of withTx
\* lowers the depth by one
Aux_C21_DepthRestored ==
    [][\A c \in 1..MaxCalls, commitLogThrows \in FaultyLogger, rollbackLogThrows \in FaultyLogger :
          WithTxExit(c, commitLogThrows, rollbackLogThrows)
            => transactionDepth' = transactionDepth - 1]_vars

OnlyDigits(raw) == raw # <<>> /\ \A i \in 1..Len(raw) : raw[i] \in Digits

\* raw is digits, one '.', digits: the two runs of digits, or none
FloatParts(raw) ==
    {p \in {<<SubSeq(raw, 1, i - 1), SubSeq(raw, i + 1, Len(raw))>> : i \in 1..Len(raw)} :
        /\ Len(p[1]) + Len(p[2]) + 1 = Len(raw) /\ raw[Len(p[1]) + 1] = "."
        /\ OnlyDigits(p[1]) /\ OnlyDigits(p[2])}

BooleanWords ==
    [true |-> {<<"t", "r", "u", "e">>, <<"1">>, <<"y", "e", "s">>},
     false |-> {<<"f", "a", "l", "s", "e">>, <<"0">>, <<"n", "o">>}]

Bracketed(raw) ==
    /\ raw # <<>>
    /\ <<raw[1], raw[Len(raw)]>> \in {<<"{", "}">>, <<"[", "]">>}

\* what the documented order of rules makes of a raw value: the first rule that matches
AutoDetected(raw) ==
    IF OnlyDigits(raw) THEN Num(StrToNat(raw, 10), 0)
    ELSE IF FloatParts(raw) # {}
    THEN (LET p == CHOOSE q \in FloatParts(raw) : TRUE
          IN  Num(StrToNat(p[1] \o p[2], 10), 0 - Len(p[2])))
    ELSE IF toLowerCase(raw) \in BooleanWords.true THEN Bool(TRUE)
    ELSE IF toLowerCase(raw) \in BooleanWords.false THEN Bool(FALSE)
    ELSE IF Bracketed(raw) /\ JSONparse(raw, 0).ok THEN JSONparse(raw, 0).v
    ELSE Str(raw)

\* C23: get without a default resolves a raw value by the first matching rule:
\* digits to the integer, digits '.' digits to the float, true/false/1/0/yes/no in
\* any case to the boolean, {...} or [...] to the parsed JSON or, if it does not
\* parse, the raw string, anything else to the raw string
Thm_C23_AutoDetectOrder ==
    (last.op = "get" /\ last.default = Undefined)
        => (~last.out.threw /\ SameValue(last.out.v, AutoDetected(env[last.key].s)))

\* '{"a":1}' has been resolved to the structure {a: 1}
Wit_C23_AutoDetectOrder ==
    /\ last.op = "get" /\ last.default = Undefined /\ last.prev = NotCached
    /\ env[last.key] = Str(<<"{", "\"", "a", "\"", ":", "1", "}">>)
    /\ ~last.out.threw /\ last.out.v.t = "object"
    /\ last.out.v.j = JObject(<<"a">> :> Num(1, 0))

\* "8080" has been resolved to the number 8080, "1" to the number 1 and not to true
Aux_C23_Numbers ==
    (last.op = "get" /\ last.default = Undefined)
        => /\ env[last.key] = Str(<<"8", "0", "8", "0">>) => last.out.v = Num(8080, 0)
           /\ env[last.key] = Str(<<"1">>) => last.out.v = Num(1, 0)
           /\ env[last.key] = Str(<<"1", ".", "5">>) => last.out.v = Num(15, 0 - 1)
           /\ env[last.key] = Str(<<"Y", "e", "s">>) => last.out.v = Bool(TRUE)
           /\ env[last.key] = Str(<<"{", "a", "}">>) => last.out.v = Str(<<"{", "a", "}">>)

\* the subscriptions made on a topic whose cancellation function has not been invoked
Active(topic) == {k \in 1..Len(tokens) : tokens[k].topic = topic /\ tokens[k].calls = 0}

\* the topics with such a subscription
ActiveTopics == {t \in Topics : Active(t) # {}}

\* C24: getSubscriptions() lists exactly the topics that hold a subscription made and
\* not yet cancelled, each with the number of such subscriptions
Cex_C24_SubscriptionCounts ==
    getSubscriptions(subscribers) = [t \in ActiveTopics |-> Cardinality(Active(t))]

\* C24, the part that holds: no topic is listed with count 0, and the counts are
\* those of the subscriptions not yet cancelled as long as no cancellation function
\* has been invoked twice
Aux_C24_CountsUntilRepeat ==
    /\ \A t \in DOMAIN getSubscriptions(subscribers) : getSubscriptions(subscribers)[t] > 0
    /\ (\A k \in 1..Len(tokens) : tokens[k].calls <= 1)
         => getSubscriptions(subscribers) = [t \in ActiveTopics |-> Cardinality(Active(t))]

\* C25: a handler subscribed after publish returned and before the delivery started,
\* and not subscribed when publish was called, is not invoked for that event
Cex_C25_RecipientsFixedAtPublish ==
    \A k \in 1..Len(tokens) : \A d \in tokens[k].pending :
        Occurrences(events[d].atPublish, tokens[k].handler) = 0
          => Occurrences(HandlersInvoked(trace, d), tokens[k].handler) = 0

\* C25, the part that holds: an event published to a topic without subscribers is
\* delivered to nobody, whoever subscribes afterwards
Aux_C25_NoSubscribersAtPublish ==
    \A d \in 1..Len(events) : events[d].atPublish = <<>> => InvocationsOf(d) = {}

\* the position in the trace of the first handler invocation for publish call d
FirstInvocation(d) == CHOOSE i \in InvocationsOf(d) : \A j \in InvocationsOf(d) : i <= j

\* C26: deliveries of events published to one topic start in publish order: the
\* delivery of a later event has not started while that of an earlier one is still
\* waiting, and the first handler invocation for the earlier event precedes the
\* first invocation for the later one
Thm_C26_DeliveryStartOrder ==
    \A d1 \in 1..Len(events), d2 \in 1..Len(events) :
        (d1 < d2 /\ events[d1].topic = events[d2].topic)
          => /\ events[d2].pc \in {"handler", "done"} => events[d1].pc # "timer"
             /\ (InvocationsOf(d1) # {} /\ InvocationsOf(d2) # {})
                  => FirstInvocation(d1) < FirstInvocation(d2)

\* two events of one topic: the delivery of the second has started while a handler
\* of the first is still running
Wit_C26_DeliveryStartOrder ==
    /\ Len(events) = 2 /\ events[1].topic = events[2].topic
    /\ events[1].pc = "handler" /\ InvocationsOf(2) # {}
    /\ FirstInvocation(1) < FirstInvocation(2)

\* the publish calls made with the idempotency key of call d, on its topic
SameKeyAs(d) ==
    {c \in 1..Len(events) :
        /\ events[c].topic = events[d].topic
        /\ events[c].idempotencyKey = events[d].idempotencyKey}

\* C27: publish never deduplicates: of two calls on one topic with the same
\* idempotencyKey each builds its own envelope carrying that key, both envelopes
\* are in the history in call order, and each event is delivered to every handler
\* subscribed when it was published (no subscribe or cancellation meanwhile)
Thm_C27_NoDeduplication ==
    \A d1 \in 1..Len(events), d2 \in 1..Len(events) :
        (d1 < d2 /\ d2 \in SameKeyAs(d1) /\ Truthy(events[d1].idempotencyKey))
          => /\ events[d1].envelope # events[d2].envelope
             /\ events[d1].envelope.id # events[d2].envelope.id
             /\ \A d \in {d1, d2} :
                   /\ events[d].envelope.idempotencyKey = events[d].idempotencyKey
                   /\ Undisturbed(d) => HandlersInvoked(trace, d) = events[d].atPublish
             /\ \E i \in 1..Len(eventHistory), j \in 1..Len(eventHistory) :
                   /\ i < j
                   /\ eventHistory[i] = events[d1].envelope
                   /\ eventHistory[j] = events[d2].envelope

\* the same payload published twice with the same key, and both events delivered to
\* the two subscribers of the topic
Wit_C27_NoDeduplication ==
    /\ Len(events) = 2 /\ 2 \in SameKeyAs(1) /\ events[1].event = events[2].event
    /\ events[1].idempotencyKey = RepeatedKey
    /\ \A d \in {1, 2} :
          /\ Undisturbed(d) /\ Len(events[d].atPublish) = 2
          /\ HandlersInvoked(trace, d) = events[d].atPublish
    /\ Len(eventHistory) = 2

\* the last operation is a get of a key last written by a set
GetAfterSet == ttlLast.op = "get" /\ written[ttlLast.key].state = "set"

\* C28: whenever set is given a ttlSeconds, 0 included, the entry expires ttlSeconds
\* after the set: a get after that instant returns null
Cex_C28_AnyTtlExpires ==
    (GetAfterSet /\ written[ttlLast.key].ttlSeconds # Undefined
       /\ Elapsed > Times1000(written[ttlLast.key].ttlSeconds))
        => ttlLast.out = Returns(Null)

\* C28, the part that holds: a ttlSeconds other than 0 makes the entry expire
\* ttlSeconds after the set, and an entry set without ttlSeconds never expires
Aux_C28_NonZeroTtlExpires ==
    GetAfterSet =>
        /\ (/\ written[ttlLast.key].ttlSeconds \notin {Undefined, Num(0, 0)}
            /\ Elapsed > Times1000(written[ttlLast.key].ttlSeconds))
              => ttlLast.out = Returns(Null)
        /\ written[ttlLast.key].ttlSeconds = Undefined
              => ttlLast.out = Returns(written[ttlLast.key].value)

\* C29: an entry past its expiry that no get has evicted yet is absent for every
\* operation: get returns null and del returns false
Cex_C29_ExpiredIsAbsent ==
    (/\ ttlLast.op \in {"get", "del"} /\ ttlLast.had # <<>>
     /\ Expired(ttlLast.had[1], ttlLast.at))
        => ttlLast.out = Returns(IF ttlLast.op = "get" THEN Null ELSE Bool(FALSE))

\* C29, the part that holds: a get of such an entry returns null, and after a del
\* of it the store holds nothing for the key
Aux_C29_ExpiredGet ==
    (/\ ttlLast.op \in {"get", "del"} /\ ttlLast.had # <<>>
     /\ Expired(ttlLast.had[1], ttlLast.at))
        => /\ ttlLast.key \notin DOMAIN store
           /\ ttlLast.op = "get" => ttlLast.out = Returns(Null)

\* C30: set replaces the whole entry, whatever the key held before: after a set
\* without TTL a get returns the value at any later time; after a set with a TTL
\* a get returns the value before the new expiry and null after it; a get never
\* returns anything but the value of the latest set or null
Thm_C30_SetOverwrites ==
    GetAfterSet =>
        /\ ttlLast.out \in {Returns(written[ttlLast.key].value), Returns(Null)}
        /\ written[ttlLast.key].ttlSeconds = Undefined
              => ttlLast.out = Returns(written[ttlLast.key].value)
        /\ Truthy(written[ttlLast.key].ttlSeconds)
              => /\ Elapsed < Times1000(written[ttlLast.key].ttlSeconds)
                      => ttlLast.out = Returns(written[ttlLast.key].value)
                 /\ Elapsed > Times1000(written[ttlLast.key].ttlSeconds)
                      => ttlLast.out = Returns(Null)

\* a key that held an entry with a TTL was set again without one, and a get later
\* than any TTL in use after that set returns the new value
Wit_C30_SetOverwrites ==
    /\ GetAfterSet /\ written[ttlLast.key].ttlSeconds = Undefined
    /\ written[ttlLast.key].over
    /\ \A ttl \in TtlSamples \ {Undefined} : Elapsed > Times1000(ttl)
    /\ ttlLast.out = Returns(written[ttlLast.key].value)

----------------------------------------------------------------------------
(* Properties of overlapping transactions, of deliveries in progress, of failed
   gets and of the depth under a failing Logger *)

\* C31: the commit or rollback record of a withTx call carries the transactionDepth
\* of the call's own start record, for every nesting and interleaving of calls
Cex_C31_RecordDepth ==
    \A c \in 1..Len(calls) :
        (calls[c].pc = "settled" /\ Len(calls[c].log) = 2)
          => calls[c].log[2].transactionDepth = calls[c].log[1].transactionDepth

\* C31, the part that holds: the record carries the depth left when the call exits,
\* which is the depth of its start record whenever every call started after it has
\* exited by then and none started before it has
Aux_C31_RecordDepthAtExit ==
    (dbLast.op = "exit" /\ Len(calls[dbLast.call].log) = 2)
        => /\ calls[dbLast.call].log[2].transactionDepth = transactionDepth
           /\ InProgress = {c \in 1..(dbLast.call - 1) :
                               calls[c].log[1].transactionDepth
                                 < calls[dbLast.call].log[1].transactionDepth}
                => calls[dbLast.call].log[2].transactionDepth
                     = calls[dbLast.call].log[1].transactionDepth

\* C33: a query observes the number of withTx scopes in progress that enclose it:
\* with two calls overlapping, neither enclosing the other, a query in either body
\* observes depth 1
Cex_C33_QueryCountsEnclosing ==
    (dbLast.op = "query" /\ dbLast.from # 0)
        => dbLast.logged[1].transactionDepth
             = Cardinality(Scopes(dbLast.from) \cap InProgress)

\* C33, what the query observes instead: the number of calls in progress on the
\* store, enclosing or not
Aux_C33_QueryCountsInProgress ==
    dbLast.op = "query" => dbLast.logged[1].transactionDepth = Cardinality(InProgress)

\* C32: a publish to a topic without subscribers builds the envelope and appends it
\* to the history, logs that there are no subscribers, sets no timer and returns
\* normally; no handler is ever invoked with that event, whoever subscribes later
Thm_C32_NoSubscribers ==
    \A d \in 1..Len(events) :
        events[d].atPublish = <<>>
          => /\ events[d].pc = "unscheduled"
             /\ events[d].out = Returns(Undefined)
             /\ events[d].envelope.type = events[d].topic
             /\ events[d].envelope.payload = events[d].event
             /\ \E i \in 1..Len(eventHistory) : eventHistory[i] = events[d].envelope
             /\ Len(events[d].log) = 2
             /\ events[d].log[2].msg = "No subscribers found for topic"
             /\ InvocationsOf(d) = {}

\* an event was published to a topic without subscribers; a handler subscribed
\* afterwards has received the next event of the topic, and not that one
Wit_C32_NoSubscribers ==
    /\ Len(events) = 2 /\ events[1].topic = events[2].topic
    /\ events[1].atPublish = <<>> /\ events[2].atPublish # <<>>
    /\ events[2].pc = "done" /\ InvocationsOf(2) # {}
    /\ InvocationsOf(1) = {}
    /\ Len(eventHistory) = 2

\* the handler and topic of the invocation a step adds to the trace
Invoked(tr) == <<tr[Len(tr)].handler, events[tr[Len(tr)].d].topic>>

\* C34: once the cancellation function of a handler's only subscription on a topic
\* has returned, no step invokes that handler on that topic again, deliveries of
\* events published before the cancellation included
Thm_C34_CancelStopsInFlight ==
    [][\A k \in 1..MaxSubscribes :
          (/\ k <= Len(tokens) /\ tokens[k].calls >= 1
           /\ TokensOf(tokens[k].topic, tokens[k].handler) = {k}
           /\ Len(trace') > Len(trace))
             => Invoked(trace') # <<tokens[k].handler, tokens[k].topic>>]_vars

\* h1 and h2 were subscribed when an event was published; h2 was cancelled while
\* the delivery had invoked h1 only, and the delivery has finished without h2
Wit_C34_CancelStopsInFlight ==
    \E d \in 1..Len(events), k \in 1..Len(tokens) :
        /\ tokens[k].topic = events[d].topic /\ tokens[k].handler = "h2"
        /\ TokensOf(tokens[k].topic, "h2") = {k}
        /\ tokens[k].calls >= 1 /\ tokens[k].cancelledAt >= d
        /\ events[d].atPublish = <<"h1", "h2">>
        /\ events[d].pc = "done"
        /\ HandlersInvoked(trace, d) = <<"h1">>

\* handler h holds one subscription on the topic of publish call d, made before
\* the call and never cancelled
StaysSubscribed(d, h) ==
    /\ Occurrences(events[d].atPublish, h) = 1
    /\ \E k \in 1..Len(tokens) :
          TokensOf(events[d].topic, h) = {k} /\ tokens[k].calls = 0

\* the positions in the trace of the invocations of h for publish call d
InvocationsFor(d, h) == {i \in InvocationsOf(d) : trace[i].handler = h}

\* C35: whatever is cancelled while an event is being delivered, every handler that
\* stays subscribed from the publish call to the end of the delivery is invoked
\* exactly once with the event
Cex_C35_CancelDuringDelivery ==
    \A d \in 1..Len(events), h \in Handlers :
        (events[d].pc = "done" /\ StaysSubscribed(d, h))
          => Cardinality(InvocationsFor(d, h)) = 1

\* C35, the part that holds: such a handler is never invoked twice with the event
Aux_C35_AtMostOnce ==
    \A d \in 1..Len(events), h \in Handlers :
        StaysSubscribed(d, h) => Cardinality(InvocationsFor(d, h)) <= 1

\* C38: with no cancellation at all, a handler subscribed throughout is invoked with
\* the events of one topic in publish order: when it has been invoked with the
\* later event it has been invoked with the earlier one before
Cex_C38_PerHandlerOrder ==
    \A d1 \in 1..Len(events), d2 \in 1..Len(events), h \in Handlers :
        (/\ d1 < d2 /\ events[d1].topic = events[d2].topic
         /\ \A k \in 1..Len(tokens) : tokens[k].calls = 0
         /\ StaysSubscribed(d1, h) /\ StaysSubscribed(d2, h)
         /\ InvocationsFor(d2, h) # {})
          => \E i \in InvocationsFor(d1, h) : \A j \in InvocationsFor(d2, h) : i < j

\* C38, the part that holds: the first handler of the topic is invoked with its
\* events in publish order
Aux_C38_FirstHandlerOrder ==
    \A d1 \in 1..Len(events), d2 \in 1..Len(events), h \in Handlers :
        (/\ d1 < d2 /\ events[d1].topic = events[d2].topic
         /\ \A k \in 1..Len(tokens) : tokens[k].calls = 0
         /\ StaysSubscribed(d1, h) /\ StaysSubscribed(d2, h)
         /\ events[d1].atPublish[1] = h
         /\ InvocationsFor(d2, h) # {})
          => \E i \in InvocationsFor(d1, h) : \A j \in InvocationsFor(d2, h) : i < j

\* the handlers a delivery task has still to invoke, the running one included
Remaining(d) ==
    IF events[d].pc = "handler"
    THEN Len(arrayOf(subscribers, events[d])) - events[d].index + 2
    ELSE IF events[d].pc = "timer" THEN Len(arrayOf(subscribers, events[d]))
    ELSE 0

\* the position of delivery task d, "none" while the event is not published
PcOf(d) == IF d <= Len(events) THEN events[d].pc ELSE "none"

\* handler number j of those subscribed when event d was published has been invoked
\* with it, in its place
DeliveredTo(d, j) ==
    IF d <= Len(events)
    THEN IF j <= Len(events[d].atPublish) /\ j <= Len(HandlersInvoked(trace, d))
         THEN HandlersInvoked(trace, d)[j] = events[d].atPublish[j]
         ELSE FALSE
    ELSE FALSE

\* event d was published while at least j handlers were subscribed to its topic
OwedTo(d, j) == IF d <= Len(events) THEN j <= Len(events[d].atPublish) ELSE FALSE

Aux_C36_ResubscribeKeepsWork ==
    [][\A d \in 1..MaxPublishes :
          HandlerResubscribes(d) => (Remaining(d)' = Remaining(d) /\ Remaining(d)' > 0)]_vars

\* C36, the part that holds: with finitely many subscribe calls a delivery finishes
Aux_C36_TerminatesOtherwise ==
    \A d \in 1..MaxPublishes :
        (PcOf(d) \in {"timer", "handler"}) ~> (PcOf(d) = "done")

\* C37: with timers that fire, handler invocations that all complete and no
\* cancellation, every handler subscribed to the topic when publish was called is
\* eventually invoked with the event, in its place of the subscription order
Thm_C37_EventuallyDelivered ==
    \A d \in 1..MaxPublishes, j \in 1..MaxSubscribes :
        OwedTo(d, j) ~> DeliveredTo(d, j)

\* an event published to two subscribers has been delivered to both, the first of
\* them having failed
Wit_C37_EventuallyDelivered ==
    \E d \in 1..Len(events) :
        /\ events[d].atPublish = <<"h1", "h2">>
        /\ events[d].pc = "done" /\ events[d].failed >= 1
        /\ SubSeq(HandlersInvoked(trace, d), 1, 2) = events[d].atPublish

\* C39: a get that throws ConfigError leaves the Map as it was, with no entry for
\* its key; the next get of that key, called after the process has set the variable
\* and without any clearCache, resolves the key from the environment as it is then
\* and memoizes what it returns
Thm_C39_FailedGetNotMemoized ==
    [][/\ (last'.op = "get" /\ last'.out.threw)
            => (cache' = cache /\ cache'[last'.key] = NotCached)
       /\ (last.op = "corrected" /\ last'.op = "get" /\ last'.key = last.key)
            => /\ last'.out = getUnmemoized(cache, env, FreshRef, last'.key, last'.required,
                                            last'.default).out
               /\ ~last'.out.threw => cache'[last'.key] = last'.out.v]_vars

\* a get with a number default threw on a value that is no number, the process set
\* the variable to "1", and the next get of the key returned 1 and memoized it
Wit_C39_FailedGetNotMemoized ==
    /\ last.op = "get" /\ last.failed.threw
    /\ last.failed.error.name = "ConfigError"
    /\ last.failed.error.message[Len(last.failed.error.message)]
           = "' cannot be converted to number"
    /\ env[last.key] = Str(Raw1)
    /\ last.out = Returns(Num(1, 0))
    /\ cache[last.key] = Num(1, 0)

\* the same after a required key was missing
Wit_C39_RequiredThenSet ==
    /\ last.op = "get" /\ last.failed.threw
    /\ last.failed.error.message[Len(last.failed.error.message)] = "' is missing or empty"
    /\ env[last.key] = Str(Raw1)
    /\ last.out = Returns(Num(1, 0))
    /\ cache[last.key] = Num(1, 0)

\* C40: with a Logger whose calls may throw, the depth is never negative and counts
\* the withTx calls that have not settled: a call whose start record threw has
\* left the depth as it found it, a call that settles lowers it by one whichever of
\* its records threw, and the depth is 0 again when every call has settled
Thm_C40_DepthSurvivesLogging ==
    /\ transactionDepth >= 0
    /\ transactionDepth = Cardinality(InProgress)
    /\ (dbLast.op = "withTx" /\ calls[dbLast.call].pc = "settled")
          => transactionDepth = dbLast.depthBefore
    /\ (dbLast.op = "exit" /\ calls[dbLast.call].out = Throws(LoggerError))
          => transactionDepth = dbLast.depthBefore - 1
    /\ (\A c \in 1..Len(calls) : calls[c].pc = "settled") => transactionDepth = 0

\* three calls have settled and the depth is 0: the start record of one threw, the
\* commit record of another threw and its rollback record was written, and the
\* rollback record of a nested one threw after its body had thrown
Wit_C40_DepthSurvivesLogging ==
    /\ transactionDepth = 0 /\ InProgress = {} /\ dbLast.op = "exit"
    /\ \E c \in 1..Len(calls) : calls[c].log = <<>> /\ calls[c].out = Throws(LoggerError)
    /\ \E c \in 1..Len(calls) :
          /\ ~calls[c].bodyOut.threw /\ Len(calls[c].log) = 2
          /\ calls[c].log[2].msg = "Database transaction rolled back"
          /\ calls[c].out = Throws(LoggerError)
    /\ \E c \in 1..Len(calls) :
          /\ calls[c].parent # 0 /\ calls[c].bodyOut.threw /\ Len(calls[c].log) = 1
          /\ calls[c].out = Throws(LoggerError)

====
